---- MODULE Spec2Model ----
(***************************************************************************)
(* A2FlightClient (src/a2flight_client.py): the connection and             *)
(* authentication state machine of one Connection.                         *)
(*                                                                         *)
(* An error text is modelled by the set of the substrings the code tests   *)
(* for (after str(e).lower()) that it contains: two texts that contain the *)
(* same tested substrings take the same path through every handler.  A     *)
(* message built by the client is the sequence of its literal templates    *)
(* (outermost first) and the error text it interpolates, if any.           *)
(***************************************************************************)
EXTENDS Naturals, Integers, Sequences, FiniteSets, TLC

VARIABLES
    api_key,        \* config.api_key
    client_name,    \* config.client_name, as the tested substrings it contains
    client,         \* self._client: 0 is None, n > 0 the n-th handle opened
    connected,      \* self._connected
    live,           \* transport handles opened and not closed
    opened,         \* number of transport handles opened so far
    connect_called, \* connect() has been called on this Connection
    pc,             \* position inside connect(): "idle" outside any call
    trace,          \* transport calls and flag writes of the current call, in
                    \* order; "raised" follows a transport call that raised
    cause,          \* the error the transport raised in the current call
    auth_error,     \* the error _authenticate() raised in the current call
    outcome,        \* how the latest finished call ended
    \* update() / delete(): the action protocol
    call,           \* the update() or delete() call in progress or finished last
    args,           \* table_name and arrow_table, while do_action is in flight
    request,        \* the Action handed to do_action, while that call is in flight
    pending,        \* bodies of the result stream the transport has not delivered
    received,       \* bodies the loop has consumed so far, in the order consumed
    result_bytes,   \* the local result_bytes, while the loop runs
    decoded,        \* the bytes handed to pa.ipc.open_stream in the current call
    \* the module-level facade
    global_client,  \* _global_client: 0 is None, n > 0 the n-th Connection built
    conns,          \* the Connections the facade built: their _client, _connected
    config_instance,\* a2flight_cl_config._config_instance is set
    fcall,          \* per caller, its facade call in progress or finished last
    \* select_streaming()
    streams,        \* the generators select_streaming() has returned, in order
    \* get_flight_client_config()
    env,            \* the api key load_from_env would read now
    config_call,    \* the latest call of get_flight_client_config
    \* the context-manager forms
    ctx             \* the 'async with' statement in progress or finished last

\* the fields of the action protocol
avars == <<call, args, request, pending, received, result_bytes, decoded>>

\* the fields of the facade
fvars == <<global_client, conns, config_instance, fcall>>

\* the generators of select_streaming
svars == <<streams>>

\* the environment and the calls of the configuration loader
cvars == <<env, config_call>>

\* the 'async with' statement
wvars == <<ctx>>

vars == <<api_key, client_name, client, connected, live, opened,
          connect_called, pc, trace, cause, auth_error, outcome, avars, fvars,
          svars, cvars, wvars>>

-----------------------------------------------------------------------------
\* Bounds

\* handles one Connection may open in a behaviour
MaxOpens == 3

-----------------------------------------------------------------------------
\* Configuration

SENTINEL == "<to be entered>"

ApiKeys == {"", SENTINEL, "a2db_key_0123456789abcdef0123456789"}

\* client_name is alphanumeric: of the tested substrings it can hold "unavailable"
ClientNames == {{}, {"unavailable"}}

\* mutant: the sentinel is taken for a credential
HasCredentialNoSentinel == api_key # ""

\* self.config.api_key and self.config.api_key != '<to be entered>'
HasCredential == api_key # "" /\ api_key # SENTINEL

-----------------------------------------------------------------------------
\* Error texts

\* substrings tested by connect()'s outer handler
OuterPats == {"unavailable", "failed to connect", "connection refused"}

\* substrings tested on the probe's error
ProbePats == {"unauthenticated", "unauthorized", "unimplemented", "authentication"}

\* substrings tested on the error of authenticate_basic_token
AuthPats == {"invalid api key", "ip not whitelisted", "access denied",
             "client disabled", "unauthenticated"}

OpenTexts  == SUBSET OuterPats
ProbeTexts == SUBSET (ProbePats \cup OuterPats)
AuthTexts  == SUBSET (AuthPats \cup OuterPats)
CrudTexts  == SUBSET OuterPats

-----------------------------------------------------------------------------
\* Messages and errors

NoMsg == [wrap |-> <<>>, has |-> FALSE, text |-> {}]

\* str(e) of an error raised by the transport
Raw(text) == [wrap |-> <<>>, has |-> TRUE, text |-> text]

\* a literal message
Lit(t) == [wrap |-> <<t>>, has |-> FALSE, text |-> {}]

\* f"<literal t>{e}"
Wrap(t, m) == [wrap |-> <<t>> \o m.wrap, has |-> m.has, text |-> m.text]

\* the tested substrings the lower-cased literal part of a template contains
TemplatePats(t) ==
    CASE t = "AuthInvalidKey"       -> {"authentication", "invalid api key"}
      [] t = "AuthIpNotWhitelisted" -> {"authentication"}
      [] t = "AuthClientDisabled"   -> {"authentication"}
      [] t = "AuthGeneric"          -> {"authentication", "invalid api key",
                                        "client disabled"}
      [] t = "AuthUnknown"          -> {"authentication"}
      [] OTHER                      -> {}

\* the templates that interpolate config.client_name
NamesClient(t) ==
    t \in {"AuthInvalidKey", "AuthIpNotWhitelisted", "AuthClientDisabled",
           "AuthGeneric"}

\* the tested substrings str(e).lower() contains
MsgPats(m) ==
    UNION {TemplatePats(m.wrap[i]) : i \in DOMAIN m.wrap}
    \cup (IF \E i \in DOMAIN m.wrap : NamesClient(m.wrap[i]) THEN client_name ELSE {})
    \cup (IF m.has THEN m.text ELSE {})

\* pat in str(e).lower()
Contains(m, pat) == pat \in MsgPats(m)

NoError == [type |-> "none", msg |-> NoMsg]

TransportError(text) == [type |-> "FlightError", msg |-> Raw(text)]

ClientError(m) == [type |-> "A2FlightClientError", msg |-> m]

NoOutcome == [op |-> "none", kind |-> "none", value |-> "none", error |-> NoError]

Returned(op, v) == [op |-> op, kind |-> "return", value |-> v, error |-> NoError]

Raised(op, e) == [op |-> op, kind |-> "raise", value |-> "none", error |-> e]

\* no Action in flight
NoAction == [type |-> "none", body |-> <<>>]

NoArgs == [name |-> "", batch |-> [cols |-> <<>>, chunks |-> <<>>]]

\* no update() or delete() has run: its locals do not exist
ActionIdle ==
    /\ call = "none"
    /\ args = NoArgs
    /\ request = NoAction
    /\ pending = <<>>
    /\ received = <<>>
    /\ result_bytes = <<>>
    /\ decoded = <<>>

\* no facade call yet
NoFacadeCall ==
    [fn |-> "none", pc |-> "idle", held |-> 0, reuse |-> FALSE, built |-> 0,
     connect |-> 0, client |-> 0, delegated |-> 0, result |-> "none"]

\* the module as imported: _global_client = None, _config_instance = None
FacadeIdle ==
    /\ global_client = 0
    /\ conns = <<>>
    /\ config_instance = FALSE
    /\ fcall = [c \in {1, 2} |-> NoFacadeCall]

\* select_streaming() has not been called
StreamIdle == streams = <<>>

\* get_flight_client_config has not been called
NoConfigCall == [fn |-> "none", reload |-> FALSE, loaded |-> FALSE]

\* the environment holds the api key of the configuration in use
ConfigIdle ==
    /\ env = api_key
    /\ config_call = NoConfigCall

\* no 'async with' statement has been entered
NoWith == [form |-> "none", pc |-> "none", raised |-> NoError]

WithIdle == ctx = NoWith

-----------------------------------------------------------------------------
\* A2FlightClient.__init__

Init ==
    /\ api_key \in ApiKeys
    /\ client_name \in ClientNames
    /\ client = 0
    /\ connected = FALSE
    /\ live = {}
    /\ opened = 0
    /\ connect_called = FALSE
    /\ pc = "idle"
    /\ trace = <<>>
    /\ cause = NoError
    /\ auth_error = NoError
    /\ outcome = NoOutcome
    /\ ActionIdle
    /\ FacadeIdle
    /\ StreamIdle
    /\ ConfigIdle
    /\ WithIdle

\* the values the fields of a Connection and the records of a call take
TypeOK ==
    /\ api_key \in ApiKeys
    /\ client_name \in ClientNames
    /\ client \in 0..opened
    /\ connected \in BOOLEAN
    /\ live \subseteq 1..opened
    /\ opened \in 0..MaxOpens
    /\ connect_called \in BOOLEAN
    /\ pc \in {"idle", "probe", "auth"}
    /\ trace \in Seq(STRING)
    /\ cause.type \in {"none", "FlightError"}
    /\ auth_error.type \in {"none", "A2FlightClientError"}
    /\ outcome.kind \in {"none", "return", "raise"}
    /\ outcome.error.type \in {"none", "A2FlightClientError"}

-----------------------------------------------------------------------------
\* A2FlightClient._authenticate: the error raised when authenticate_basic_token
\* fails with the given text

\* mutant: the whitelist test comes before the api key test
AuthenticateErrorIpFirst(text) ==
    IF "ip not whitelisted" \in text \/ "access denied" \in text
    THEN ClientError(Lit("AuthIpNotWhitelisted"))
    ELSE IF "invalid api key" \in text
    THEN ClientError(Lit("AuthInvalidKey"))
    ELSE IF "client disabled" \in text
    THEN ClientError(Lit("AuthClientDisabled"))
    ELSE IF "unauthenticated" \in text
    THEN ClientError(Wrap("AuthGeneric", Raw(text)))
    ELSE ClientError(Wrap("AuthUnknown", Raw(text)))

AuthenticateError(text) ==
    IF "invalid api key" \in text
    THEN ClientError(Lit("AuthInvalidKey"))
    ELSE IF "ip not whitelisted" \in text \/ "access denied" \in text
    THEN ClientError(Lit("AuthIpNotWhitelisted"))
    ELSE IF "client disabled" \in text
    THEN ClientError(Lit("AuthClientDisabled"))
    ELSE IF "unauthenticated" \in text
    THEN ClientError(Wrap("AuthGeneric", Raw(text)))
    ELSE ClientError(Wrap("AuthUnknown", Raw(text)))

-----------------------------------------------------------------------------
\* A2FlightClient.connect

\* mutant: only 'unauthenticated' is taken for an authentication error
ProbeBranchNoUnauthorized(text) ==
    IF "unauthenticated" \in text
    THEN "authenticate"
    ELSE IF "unimplemented" \in text /\ "authentication" \in text
    THEN "no_auth"
    ELSE "reraise"

\* mutant: the 'unimplemented' branch is missing
ProbeBranchNoUnimplemented(text) ==
    IF "unauthenticated" \in text \/ "unauthorized" \in text
    THEN "authenticate"
    ELSE "reraise"

\* the handler of the probe's error: which branch it takes
ProbeBranch(text) ==
    IF "unauthenticated" \in text \/ "unauthorized" \in text
    THEN "authenticate"
    ELSE IF "unimplemented" \in text /\ "authentication" \in text
    THEN "no_auth"
    ELSE "reraise"

\* mutant: 'connection refused' is not tested, as in insert()'s handler
ConnectExceptNoRefused(e) ==
    IF \/ Contains(e.msg, "unavailable")
       \/ Contains(e.msg, "failed to connect")
    THEN ClientError(Lit("ServerNotRunning"))
    ELSE ClientError(Wrap("ConnectionFailed", e.msg))

\* the outer handler: the error connect() raises for the error e it caught
ConnectExcept(e) ==
    IF \/ Contains(e.msg, "unavailable")
       \/ Contains(e.msg, "failed to connect")
       \/ Contains(e.msg, "connection refused")
    THEN ClientError(Lit("ServerNotRunning"))
    ELSE ClientError(Wrap("ConnectionFailed", e.msg))

\* self._connected = True; return True
ConnectFinish(tr) ==
    /\ connected' = TRUE
    /\ trace' = tr \o <<"connected=True">>
    /\ outcome' = Returned("connect", "True")
    /\ pc' = "idle"

\* mutant: the flag is set although connect() raises
ConnectRaiseSetsFlag(tr, e) ==
    /\ trace' = tr
    /\ outcome' = Raised("connect", ConnectExcept(e))
    /\ pc' = "idle"
    /\ connected' = TRUE

\* the outer handler raises
ConnectRaise(tr, e) ==
    /\ trace' = tr
    /\ outcome' = Raised("connect", ConnectExcept(e))
    /\ pc' = "idle"
    /\ UNCHANGED connected

\* flight.FlightClient(location) raises
ConnectOpenFails ==
    /\ pc = "idle"
    /\ \E t \in OpenTexts :
         /\ cause' = TransportError(t)
         /\ ConnectRaise(<<"FlightClient", "raised">>, TransportError(t))
    /\ connect_called' = TRUE
    /\ auth_error' = NoError
    /\ UNCHANGED <<api_key, client_name, client, live, opened>>
    /\ UNCHANGED <<avars, fvars, svars, cvars, wvars>>

\* flight.FlightClient(location) returns a handle; without a credential the
\* call ends here
ConnectOpen ==
    /\ pc = "idle"
    /\ opened < MaxOpens
    /\ opened' = opened + 1
    /\ client' = opened + 1
    /\ live' = live \cup {opened + 1}
    /\ connect_called' = TRUE
    /\ cause' = NoError
    /\ auth_error' = NoError
    /\ IF HasCredential
       THEN /\ pc' = "probe"
            /\ trace' = <<"FlightClient">>
            /\ outcome' = NoOutcome
            /\ UNCHANGED connected
       ELSE ConnectFinish(<<"FlightClient">>)
    /\ UNCHANGED <<api_key, client_name>>
    /\ UNCHANGED <<avars, fvars, svars, cvars, wvars>>

\* mutant: a configured credential is always used
ConnectProbeOkAuthenticates ==
    /\ pc = "probe"
    /\ pc' = "auth"
    /\ trace' = trace \o <<"list_actions">>
    /\ UNCHANGED <<api_key, client_name, client, connected, live, opened,
                   connect_called, cause, auth_error, outcome>>
    /\ UNCHANGED <<avars, fvars, svars, cvars, wvars>>

\* list(self._client.list_actions()) returns
ConnectProbeOk ==
    /\ pc = "probe"
    /\ ConnectFinish(trace \o <<"list_actions">>)
    /\ UNCHANGED <<api_key, client_name, client, live, opened, connect_called,
                   cause, auth_error>>
    /\ UNCHANGED <<avars, fvars, svars, cvars, wvars>>

\* list(self._client.list_actions()) raises
ConnectProbeFails ==
    /\ pc = "probe"
    /\ \E t \in ProbeTexts :
         /\ cause' = TransportError(t)
         /\ CASE ProbeBranch(t) = "authenticate" ->
                   /\ pc' = "auth"
                   /\ trace' = trace \o <<"list_actions", "raised">>
                   /\ UNCHANGED <<connected, outcome>>
              [] ProbeBranch(t) = "no_auth" ->
                   ConnectFinish(trace \o <<"list_actions", "raised">>)
              [] OTHER ->
                   ConnectRaise(trace \o <<"list_actions", "raised">>,
                                TransportError(t))
    /\ UNCHANGED <<api_key, client_name, client, live, opened, connect_called,
                   auth_error>>
    /\ UNCHANGED <<avars, fvars, svars, cvars, wvars>>

\* self._authenticate() returns
ConnectAuthOk ==
    /\ pc = "auth"
    /\ ConnectFinish(trace \o <<"authenticate_basic_token">>)
    /\ UNCHANGED <<api_key, client_name, client, live, opened, connect_called,
                   cause, auth_error>>
    /\ UNCHANGED <<avars, fvars, svars, cvars, wvars>>

\* self._authenticate() raises
ConnectAuthFails ==
    /\ pc = "auth"
    /\ \E t \in AuthTexts :
         /\ cause' = TransportError(t)
         /\ auth_error' = AuthenticateError(t)
         /\ ConnectRaise(trace \o <<"authenticate_basic_token", "raised">>,
                         AuthenticateError(t))
    /\ UNCHANGED <<api_key, client_name, client, live, opened, connect_called>>
    /\ UNCHANGED <<avars, fvars, svars, cvars, wvars>>

-----------------------------------------------------------------------------
\* insert, select, update, delete

\* mutant: the connected check is missing
EnsureConnectedMissing == TRUE

\* A2FlightClient._ensure_connected does not raise
EnsureConnected == connected /\ client # 0

TransportCallsRetried(op) ==
    IF op = "insert" THEN <<"do_put", "do_put", "write_table", "writer.close">>
    ELSE IF op = "select" THEN <<"do_get", "do_get", "read_all">>
    ELSE <<"do_action", "do_action", "read_results">>

\* the transport calls of each operation, in order
TransportCalls(op) ==
    CASE op = "insert" -> <<"do_put", "write_table", "writer.close">>
      [] op = "select" -> <<"do_get", "read_all">>
      [] op = "update" -> <<"do_action", "read_results">>
      [] op = "delete" -> <<"do_action", "read_results">>

\* the handler of insert()
InsertExcept(e) ==
    IF Contains(e.msg, "unavailable") \/ Contains(e.msg, "failed to connect")
    THEN ClientError(Lit("ServerNotRunning"))
    ELSE ClientError(Wrap("InsertFailed", e.msg))

\* the handlers of select(), update(), delete()
SelectExcept(e) == ClientError(Wrap("SelectFailed", e.msg))

UpdateExcept(e) == ClientError(Wrap("UpdateFailed", e.msg))

DeleteExcept(e) == ClientError(Wrap("DeleteFailed", e.msg))

\* mutant: the handler lets the error it caught through
OpExceptReraises(op, e) == e

OpExcept(op, e) ==
    CASE op = "insert" -> InsertExcept(e)
      [] op = "select" -> SelectExcept(e)
      [] op = "update" -> UpdateExcept(e)
      [] op = "delete" -> DeleteExcept(e)

\* one CRUD call: the connected check, then the transport calls up to the
\* first that fails
Crud(op) ==
    /\ pc = "idle"
    /\ auth_error' = NoError
    /\ IF ~EnsureConnected
       THEN /\ trace' = <<>>
            /\ cause' = NoError
            /\ outcome' = Raised(op, ClientError(Lit("NotConnected")))
       ELSE \/ /\ trace' = TransportCalls(op)
               /\ cause' = NoError
               /\ outcome' = Returned(op, "result")
            \/ \E k \in 1..Len(TransportCalls(op)), t \in CrudTexts :
                 /\ trace' = SubSeq(TransportCalls(op), 1, k) \o <<"raised">>
                 /\ cause' = TransportError(t)
                 /\ outcome' = Raised(op, OpExcept(op, TransportError(t)))
    /\ UNCHANGED <<api_key, client_name, client, connected, live, opened,
                   connect_called, pc>>
    /\ UNCHANGED <<avars, fvars, svars, cvars, wvars>>

Insert == Crud("insert")

Select == Crud("select")

Update == Crud("update")

Delete == Crud("delete")

-----------------------------------------------------------------------------
\* A2FlightClient.close and is_connected

\* mutant: the fields are cleared only when the transport's close returned
CloseKeepsOnFailure ==
    /\ pc = "idle"
    /\ auth_error' = NoError
    /\ outcome' = Returned("close", "None")
    /\ IF client # 0
       THEN \/ /\ client' = 0
               /\ connected' = FALSE
               /\ live' = live \ {client}
               /\ trace' = <<"close">>
               /\ cause' = NoError
            \/ \E t \in CrudTexts :
                 /\ trace' = <<"close", "raised">>
                 /\ cause' = TransportError(t)
                 /\ UNCHANGED <<client, connected, live>>
       ELSE /\ trace' = <<>>
            /\ cause' = NoError
            /\ UNCHANGED <<client, connected, live>>
    /\ UNCHANGED <<api_key, client_name, opened, connect_called, pc>>
    /\ UNCHANGED <<avars, fvars, svars, cvars, wvars>>

\* mutant: close() forgets the handle and leaves the flag
CloseKeepsFlag ==
    /\ pc = "idle"
    /\ auth_error' = NoError
    /\ outcome' = Returned("close", "None")
    /\ trace' = IF client # 0 THEN <<"close">> ELSE <<>>
    /\ cause' = NoError
    /\ client' = 0
    /\ live' = live \ {client}
    /\ UNCHANGED connected
    /\ UNCHANGED <<api_key, client_name, opened, connect_called, pc>>
    /\ UNCHANGED <<avars, fvars, svars, cvars, wvars>>

\* the property is_connected
is_connected == connected /\ client # 0

Close ==
    /\ pc = "idle"
    /\ auth_error' = NoError
    /\ outcome' = Returned("close", "None")
    /\ IF client # 0
       THEN /\ client' = 0
            /\ connected' = FALSE
            /\ \/ /\ live' = live \ {client}
                  /\ trace' = <<"close">>
                  /\ cause' = NoError
               \/ \E t \in CrudTexts :
                    /\ trace' = <<"close", "raised">>
                    /\ cause' = TransportError(t)
                    /\ UNCHANGED live
       ELSE /\ trace' = <<>>
            /\ cause' = NoError
            /\ UNCHANGED <<client, connected, live>>
    /\ UNCHANGED <<api_key, client_name, opened, connect_called, pc>>
    /\ UNCHANGED <<avars, fvars, svars, cvars, wvars>>

-----------------------------------------------------------------------------

Next ==
    \/ ConnectOpenFails
    \/ ConnectOpen
    \/ ConnectProbeOk
    \/ ConnectProbeFails
    \/ ConnectAuthOk
    \/ ConnectAuthFails
    \/ Insert
    \/ Select
    \/ Update
    \/ Delete
    \/ Close

Spec == Init /\ [][Next]_vars

-----------------------------------------------------------------------------
\* Arrow tables and their IPC stream encoding, as update() and delete() use
\* them

\* rows of a caller's batch, a response or an envelope, at the most
MaxRows == 2

\* bodies the transport cuts one response into, at the most
MaxBodies == 2

\* a sequence of sequences, joined in order
RECURSIVE Concat(_)
Concat(ss) == IF ss = <<>> THEN <<>> ELSE Head(ss) \o Concat(Tail(ss))

\* the sequences over S of length n at the most
SeqsUpTo(S, n) == UNION {[1..k -> S] : k \in 0..n}

\* a pa.Table: the column names of its schema and its chunks, each chunk a
\* sequence of rows, each row a record over the columns
Table(cols, chunks) == [cols |-> cols, chunks |-> chunks]

Rows(t) == Concat(t.chunks)

\* table.num_rows
NumRows(t) == Len(Rows(t))

\* name in table.schema.names
HasCol(t, c) == \E i \in DOMAIN t.cols : t.cols[i] = c

\* the messages of an IPC stream
SchemaMsg(cols) == [kind |-> "schema", cols |-> cols, rows |-> <<>>]

BatchMsg(rows) == [kind |-> "batch", cols |-> <<>>, rows |-> rows]

EosMsg == [kind |-> "eos", cols |-> <<>>, rows |-> <<>>]

\* bytes that are no IPC message
GarbageMsg == [kind |-> "garbage", cols |-> <<>>, rows |-> <<>>]

\* the chunks write_table writes as record batches: the chunks that hold rows
RECURSIVE NonEmpty(_)
NonEmpty(chunks) ==
    IF chunks = <<>> THEN <<>>
    ELSE IF Head(chunks) = <<>> THEN NonEmpty(Tail(chunks))
    ELSE <<Head(chunks)>> \o NonEmpty(Tail(chunks))

\* mutant: the writer stops after the first record batch
IpcEncodeFirstChunk(t) ==
    <<SchemaMsg(t.cols)>>
        \o [i \in 1..(IF NonEmpty(t.chunks) = <<>> THEN 0 ELSE 1)
              |-> BatchMsg(NonEmpty(t.chunks)[i])]
        \o <<EosMsg>>

\* pa.ipc.new_stream(sink, table.schema); write_table(table); close();
\* sink.getvalue(): the schema, one record batch per chunk, the end marker
IpcEncode(t) ==
    <<SchemaMsg(t.cols)>>
        \o [i \in 1..Len(NonEmpty(t.chunks)) |-> BatchMsg(NonEmpty(t.chunks)[i])]
        \o <<EosMsg>>

\* where the reader stops: the end marker, or the end of the bytes
StreamEnd(bytes) ==
    IF \E i \in DOMAIN bytes : bytes[i].kind = "eos"
    THEN CHOOSE i \in DOMAIN bytes :
            /\ bytes[i].kind = "eos"
            /\ \A j \in 1..(i - 1) : bytes[j].kind # "eos"
    ELSE Len(bytes) + 1

\* pa.ipc.open_stream(buffer).read_all() does not raise
IpcValid(bytes) ==
    /\ Len(bytes) >= 1
    /\ bytes[1].kind = "schema"
    /\ \A i \in 2..(StreamEnd(bytes) - 1) : bytes[i].kind = "batch"

\* mutant: the reader joins all record batches into one chunk
IpcDecodeMerged(bytes) ==
    Table(bytes[1].cols,
          <<Concat([i \in 1..(StreamEnd(bytes) - 2) |-> bytes[i + 1].rows])>>)

\* pa.ipc.open_stream(buffer).read_all(): one chunk per record batch
IpcDecode(bytes) ==
    Table(bytes[1].cols,
          [i \in 1..(StreamEnd(bytes) - 2) |-> bytes[i + 1].rows])

\* the metadata table: pa.table({'table_name': [name], 'data': [data_bytes]})
MetadataTable(name, data_bytes) ==
    Table(<<"table_name", "data">>,
          << <<[table_name |-> name, data |-> data_bytes]>> >>)

\* meta_sink.getvalue(): the bytes update() and delete() put in the Action
ActionBody(name, batch) == IpcEncode(MetadataTable(name, IpcEncode(batch)))

\* mutant: delete() sends its envelope under the name of update()
ActionNamedUpdate(op, name, batch) ==
    [type |-> "update", body |-> ActionBody(name, batch)]

\* flight.Action('update' | 'delete', meta_sink.getvalue())
Action(op, name, batch) == [type |-> op, body |-> ActionBody(name, batch)]

-----------------------------------------------------------------------------
\* What callers pass and what servers answer

TableNames == {"t", "u"}

BatchRows == {[id |-> 1], [id |-> 2]}

\* the ways a table keeps its rows: in one chunk, cut in two, or (when it has
\* no row) without any chunk
Layouts(rows) ==
    {<<rows>>}
        \cup {<<SubSeq(rows, 1, k), SubSeq(rows, k + 1, Len(rows))>> :
                 k \in 0..Len(rows)}
        \cup (IF rows = <<>> THEN {<<>>} ELSE {})

\* the tables a caller passes as arrow_table
Batches ==
    {Table(<<"id">>, c) :
        c \in UNION {Layouts(r) : r \in SeqsUpTo(BatchRows, MaxRows)}}

\* cell.as_py(): a value, or None
BoolCell(b) == [null |-> FALSE, v |-> b]

IntCell(n) == [null |-> FALSE, v |-> n]

StrCell(s) == [null |-> FALSE, v |-> s]

NullInt == [null |-> TRUE, v |-> 0]

\* None, where a string is expected
PyNone == [null |-> TRUE, v |-> ""]

\* the schemas of a response: the full one, and one without each field
RespCols ==
    { <<"success", "rows_affected", "method_used">>,
      <<"success", "rows_affected">>,
      <<"rows_affected", "method_used">>,
      <<"success", "method_used">> }

FullRows ==
    [ success : {BoolCell(TRUE), BoolCell(FALSE)},
      rows_affected : {IntCell(1), IntCell(-1), NullInt},
      method_used : {StrCell("flight"), PyNone} ]

\* the row of a response over the columns cols that r gives
Project(r, cols) == [c \in {cols[i] : i \in DOMAIN cols} |-> r[c]]

\* the rows a response can start with
RespRows(cols) == {Project(r, cols) : r \in FullRows}

\* the rows that can follow row 0: two rows that differ in every field
LaterRows(cols) ==
    { Project([success |-> BoolCell(TRUE), rows_affected |-> IntCell(1),
               method_used |-> StrCell("flight")], cols),
      Project([success |-> BoolCell(FALSE), rows_affected |-> IntCell(-1),
               method_used |-> PyNone], cols) }

\* the rows of a response: none, or any row 0 and later rows after it
RespRowSeqs(cols) ==
    {<<>>} \cup {<<r>> \o rest : r \in RespRows(cols),
                                 rest \in SeqsUpTo(LaterRows(cols), MaxRows - 1)}

\* a server writes its rows as one record batch, or one batch per row
RespLayouts(rows) ==
    IF rows = <<>> THEN {<<>>}
    ELSE {<<rows>>, [i \in 1..Len(rows) |-> <<rows[i]>>]}

RespTables ==
    UNION {{Table(cols, c) :
               c \in UNION {RespLayouts(r) : r \in RespRowSeqs(cols)}} :
           cols \in RespCols}

\* what a server sends back: an encoded table, nothing, or no IPC stream
ServerBytes == {IpcEncode(t) : t \in RespTables} \cup {<<>>, <<GarbageMsg>>}

\* the ways the transport cuts bytes into n bodies at the most
RECURSIVE Splits(_, _)
Splits(bytes, n) ==
    IF bytes = <<>> THEN {<<>>}
    ELSE IF n = 0 THEN {}
    ELSE UNION {{<<SubSeq(bytes, 1, k)>> \o s :
                    s \in Splits(SubSeq(bytes, k + 1, Len(bytes)), n - 1)} :
                k \in 1..Len(bytes)}

\* the result streams of do_action
ServerStreams == UNION {Splits(b, MaxBodies) : b \in ServerBytes}

-----------------------------------------------------------------------------
\* A2FlightClient.update and A2FlightClient.delete, statement by statement

ActionOps == {"update", "delete"}

\* an exception raised by Python or pyarrow, with the text that names it
PyError(type, text) == [type |-> type, msg |-> Raw({text})]

\* the result dict
Result(s, r, m) == [success |-> s, rows_affected |-> r, method_used |-> m]

\* mutant: each body replaces the bytes read before it
AccumulateLast(bytes, body) == body

\* result_bytes += result.body
Accumulate(bytes, body) == bytes \o body

\* mutant: a response without method_used is an error
ResponseErrorMethodRequired(bytes) ==
    IF ~IpcValid(bytes) THEN PyError("ArrowInvalid", "invalid ipc stream")
    ELSE IF ~HasCol(IpcDecode(bytes), "success")
         THEN PyError("KeyError", "success")
    ELSE IF NumRows(IpcDecode(bytes)) = 0
         THEN PyError("IndexError", "index out of bounds")
    ELSE IF ~HasCol(IpcDecode(bytes), "rows_affected")
         THEN PyError("KeyError", "rows_affected")
    ELSE IF ~HasCol(IpcDecode(bytes), "method_used")
         THEN PyError("KeyError", "method_used")
    ELSE IF Rows(IpcDecode(bytes))[1].rows_affected.null
         THEN PyError("TypeError", "unsupported format string")
    ELSE NoError

\* what the statements from pa.ipc.open_stream to the last logger.info raise:
\* the reader on bytes that are no stream, the lookup of a field the schema
\* lacks, row 0 of a table without rows, the ':,' format of None
ResponseError(bytes) ==
    IF ~IpcValid(bytes) THEN PyError("ArrowInvalid", "invalid ipc stream")
    ELSE IF ~HasCol(IpcDecode(bytes), "success")
         THEN PyError("KeyError", "success")
    ELSE IF NumRows(IpcDecode(bytes)) = 0
         THEN PyError("IndexError", "index out of bounds")
    ELSE IF ~HasCol(IpcDecode(bytes), "rows_affected")
         THEN PyError("KeyError", "rows_affected")
    ELSE IF Rows(IpcDecode(bytes))[1].rows_affected.null
         THEN PyError("TypeError", "unsupported format string")
    ELSE NoError

\* mutant: the fields are read from the last row of the response
ResponseResultLastRow(bytes) ==
    LET t == IpcDecode(bytes)
        r == Rows(t)[NumRows(t)]
    IN  Result(r.success, r.rows_affected,
               IF HasCol(t, "method_used") THEN r.method_used ELSE PyNone)

\* the result dict built from row 0 of the response table
ResponseResult(bytes) ==
    LET t == IpcDecode(bytes)
        r == Rows(t)[1]
    IN  Result(r.success, r.rows_affected,
               IF HasCol(t, "method_used") THEN r.method_used ELSE PyNone)

\* mutant: the exception leaves update() or delete() as it is
ActionFailsUnwrapped(op, e) ==
    /\ cause' = e
    /\ outcome' = Raised(op, e)
    /\ request' = NoAction
    /\ args' = NoArgs
    /\ pc' = "idle"

\* the except clause of update() or delete() raises
ActionFails(op, e) ==
    /\ cause' = e
    /\ outcome' = Raised(op, OpExcept(op, e))
    /\ request' = NoAction
    /\ args' = NoArgs
    /\ pc' = "idle"

\* _ensure_connected raises before the try block
ActionNotConnected(op) ==
    /\ pc = "idle"
    /\ ~EnsureConnected
    /\ call' = op
    /\ trace' = <<>>
    /\ cause' = NoError
    /\ outcome' = Raised(op, ClientError(Lit("NotConnected")))
    /\ request' = NoAction
    /\ args' = NoArgs
    /\ pending' = <<>>
    /\ received' = <<>>
    /\ result_bytes' = <<>>
    /\ decoded' = <<>>
    /\ UNCHANGED <<api_key, client_name, client, connected, live, opened,
                   connect_called, pc, auth_error, fvars, svars, cvars, wvars>>

\* the argument is no table: arrow_table.num_rows raises in the try block
ActionBadArgument(op) ==
    /\ pc = "idle"
    /\ EnsureConnected
    /\ call' = op
    /\ trace' = <<>>
    /\ ActionFails(op, PyError("AttributeError", "num_rows"))
    /\ pending' = <<>>
    /\ received' = <<>>
    /\ result_bytes' = <<>>
    /\ decoded' = <<>>
    /\ UNCHANGED <<api_key, client_name, client, connected, live, opened,
                   connect_called, auth_error, fvars, svars, cvars, wvars>>

\* mutant: a batch without rows is refused before the transport is called
ActionSendRejectsEmpty(op) ==
    /\ pc = "idle"
    /\ EnsureConnected
    /\ call' = op
    /\ \E batch \in Batches, name \in TableNames :
          IF NumRows(batch) = 0
          THEN /\ trace' = <<>>
               /\ ActionFails(op, PyError("ValueError", "empty"))
          ELSE /\ args' = [name |-> name, batch |-> batch]
               /\ request' = Action(op, name, batch)
               /\ pc' = "action"
               /\ trace' = <<"do_action">>
               /\ cause' = NoError
               /\ outcome' = NoOutcome
    /\ pending' = <<>>
    /\ received' = <<>>
    /\ result_bytes' = <<>>
    /\ decoded' = <<>>
    /\ UNCHANGED <<api_key, client_name, client, connected, live, opened,
                   connect_called, auth_error, fvars, svars, cvars, wvars>>

\* from _ensure_connected to the call of do_action: both tables are encoded
\* and the Action is handed to the transport
ActionSend(op) ==
    /\ pc = "idle"
    /\ EnsureConnected
    /\ \E batch \in Batches, name \in TableNames :
          /\ args' = [name |-> name, batch |-> batch]
          /\ request' = Action(op, name, batch)
    /\ call' = op
    /\ pc' = "action"
    /\ trace' = <<"do_action">>
    /\ cause' = NoError
    /\ outcome' = NoOutcome
    /\ pending' = <<>>
    /\ received' = <<>>
    /\ result_bytes' = <<>>
    /\ decoded' = <<>>
    /\ UNCHANGED <<api_key, client_name, client, connected, live, opened,
                   connect_called, auth_error, fvars, svars, cvars, wvars>>

\* do_action raises
ActionRaises ==
    /\ pc = "action"
    /\ \E t \in CrudTexts : ActionFails(call, TransportError(t))
    /\ trace' = Append(trace, "raised")
    /\ UNCHANGED <<api_key, client_name, client, connected, live, opened,
                   connect_called, auth_error, call, pending, received,
                   result_bytes, decoded, fvars, svars, cvars, wvars>>

\* do_action returns the result stream; result_bytes = b''
ActionReturns ==
    /\ pc = "action"
    /\ pending' \in ServerStreams
    /\ request' = NoAction
    /\ args' = NoArgs
    /\ pc' = "read"
    /\ trace' = Append(trace, "read_results")
    /\ UNCHANGED <<api_key, client_name, client, connected, live, opened,
                   connect_called, auth_error, call, cause, outcome,
                   received, result_bytes, decoded, fvars, svars, cvars, wvars>>

\* one turn of the loop over the result stream
ReadChunk ==
    /\ pc = "read"
    /\ pending # <<>>
    /\ result_bytes' = Accumulate(result_bytes, Head(pending))
    /\ received' = Append(received, Head(pending))
    /\ pending' = Tail(pending)
    /\ UNCHANGED <<api_key, client_name, client, connected, live, opened,
                   connect_called, auth_error, call, pc, trace, cause,
                   outcome, args, request, decoded, fvars, svars, cvars, wvars>>

\* the result stream raises instead of delivering its next body: the loop is
\* left and nothing is decoded
ReadRaises ==
    /\ pc = "read"
    /\ \E t \in CrudTexts : ActionFails(call, TransportError(t))
    /\ trace' = Append(trace, "raised")
    /\ pending' = <<>>
    /\ received' = <<>>
    /\ result_bytes' = <<>>
    /\ UNCHANGED <<api_key, client_name, client, connected, live, opened,
                   connect_called, auth_error, call, decoded, fvars, svars, cvars, wvars>>

\* the stream is exhausted: the response is decoded, the result dict is
\* built and returned, or the except clause raises
ReadDone ==
    /\ pc = "read"
    /\ pending = <<>>
    /\ decoded' = result_bytes
    /\ trace' = Append(trace, "open_stream")
    /\ IF ResponseError(result_bytes) # NoError
       THEN ActionFails(call, ResponseError(result_bytes))
       ELSE /\ cause' = NoError
            /\ outcome' = Returned(call, ResponseResult(result_bytes))
            /\ request' = NoAction
            /\ args' = NoArgs
            /\ pc' = "idle"
    /\ received' = <<>>
    /\ result_bytes' = <<>>
    /\ UNCHANGED <<api_key, client_name, client, connected, live, opened,
                   connect_called, auth_error, call, pending, fvars, svars, cvars, wvars>>

\* insert(), statement by statement

\* self._client.do_put(descriptor, arrow_table.schema): the stream the writer
\* has sent, which starts with the schema
Put(cols) == [type |-> "do_put", body |-> <<SchemaMsg(cols)>>]

\* writer.write_table(arrow_table): one record batch per chunk that has rows
WriteTable(t) ==
    [i \in 1..Len(NonEmpty(t.chunks)) |-> BatchMsg(NonEmpty(t.chunks)[i])]

\* the result dict of insert(), without the execution time
InsertResult(t) ==
    [success |-> TRUE, rows_written |-> NumRows(t), method_used |-> "flight"]

\* from _ensure_connected to do_put returning the writer
InsertPut ==
    /\ pc = "idle"
    /\ EnsureConnected
    /\ \E batch \in Batches, name \in TableNames :
          /\ args' = [name |-> name, batch |-> batch]
          /\ request' = Put(batch.cols)
    /\ call' = "insert"
    /\ pc' = "write"
    /\ trace' = <<"do_put">>
    /\ cause' = NoError
    /\ outcome' = NoOutcome
    /\ pending' = <<>>
    /\ received' = <<>>
    /\ result_bytes' = <<>>
    /\ decoded' = <<>>
    /\ UNCHANGED <<api_key, client_name, client, connected, live, opened,
                   connect_called, auth_error, fvars, svars, cvars, wvars>>

\* do_put raises
InsertPutRaises ==
    /\ pc = "idle"
    /\ EnsureConnected
    /\ call' = "insert"
    /\ trace' = <<"do_put", "raised">>
    /\ \E t \in CrudTexts : ActionFails("insert", TransportError(t))
    /\ pending' = <<>>
    /\ received' = <<>>
    /\ result_bytes' = <<>>
    /\ decoded' = <<>>
    /\ UNCHANGED <<api_key, client_name, client, connected, live, opened,
                   connect_called, auth_error, fvars, svars, cvars, wvars>>

\* mutant: the result is returned after write_table, the writer left open
InsertCloseSkipped ==
    /\ pc = "write"
    /\ trace' = Append(trace, "write_table")
    /\ cause' = NoError
    /\ outcome' = Returned("insert", InsertResult(args.batch))
    /\ request' = NoAction
    /\ args' = NoArgs
    /\ pc' = "idle"
    /\ UNCHANGED <<api_key, client_name, client, connected, live, opened,
                   connect_called, auth_error, call, pending, received,
                   result_bytes, decoded, fvars, svars, cvars, wvars>>

\* writer.write_table(arrow_table) returns
InsertWrite ==
    /\ pc = "write"
    /\ request' = [request EXCEPT !.body = @ \o WriteTable(args.batch)]
    /\ pc' = "close_writer"
    /\ trace' = Append(trace, "write_table")
    /\ UNCHANGED <<api_key, client_name, client, connected, live, opened,
                   connect_called, auth_error, call, cause, outcome, args,
                   pending, received, result_bytes, decoded, fvars, svars, cvars, wvars>>

\* writer.write_table(arrow_table) raises
InsertWriteRaises ==
    /\ pc = "write"
    /\ trace' = trace \o <<"write_table", "raised">>
    /\ \E t \in CrudTexts : ActionFails("insert", TransportError(t))
    /\ UNCHANGED <<api_key, client_name, client, connected, live, opened,
                   connect_called, auth_error, call, pending, received,
                   result_bytes, decoded, fvars, svars, cvars, wvars>>

\* writer.close() returns: the result dict is built and returned
InsertClose ==
    /\ pc = "close_writer"
    /\ trace' = Append(trace, "writer.close")
    /\ cause' = NoError
    /\ outcome' = Returned("insert", InsertResult(args.batch))
    /\ request' = NoAction
    /\ args' = NoArgs
    /\ pc' = "idle"
    /\ UNCHANGED <<api_key, client_name, client, connected, live, opened,
                   connect_called, auth_error, call, pending, received,
                   result_bytes, decoded, fvars, svars, cvars, wvars>>

\* writer.close() raises
InsertCloseRaises ==
    /\ pc = "close_writer"
    /\ trace' = trace \o <<"writer.close", "raised">>
    /\ \E t \in CrudTexts : ActionFails("insert", TransportError(t))
    /\ UNCHANGED <<api_key, client_name, client, connected, live, opened,
                   connect_called, auth_error, call, pending, received,
                   result_bytes, decoded, fvars, svars, cvars, wvars>>

\* a Connection as constructed, or after one successful connect()
ActionInit ==
    /\ api_key = ""
    /\ client_name = {}
    /\ \/ /\ client = 0
          /\ connected = FALSE
          /\ live = {}
          /\ opened = 0
          /\ connect_called = FALSE
          /\ trace = <<>>
          /\ outcome = NoOutcome
       \/ /\ client = 1
          /\ connected = TRUE
          /\ live = {1}
          /\ opened = 1
          /\ connect_called = TRUE
          /\ trace = <<"FlightClient", "connected=True">>
          /\ outcome = Returned("connect", "True")
    /\ pc = "idle"
    /\ cause = NoError
    /\ auth_error = NoError
    /\ ActionIdle
    /\ FacadeIdle
    /\ StreamIdle
    /\ ConfigIdle
    /\ WithIdle

ActionNext ==
    \/ \E op \in ActionOps : ActionNotConnected(op)
    \/ \E op \in ActionOps : ActionBadArgument(op)
    \/ \E op \in ActionOps : ActionSend(op)
    \/ ActionRaises
    \/ ActionReturns
    \/ ReadChunk
    \/ ReadRaises
    \/ ReadDone
    \/ ActionNotConnected("insert")
    \/ ActionBadArgument("insert")
    \/ InsertPut
    \/ InsertPutRaises
    \/ InsertWrite
    \/ InsertWriteRaises
    \/ InsertClose
    \/ InsertCloseRaises

\* insert(), update() and delete() on one Connection
ActionSpec == ActionInit /\ [][ActionNext]_vars

-----------------------------------------------------------------------------
\* The module-level facade: _get_global_client, a2db_ins, a2db_sel,
\* a2db_updt, a2db_del, a2db_close

\* Connections the facade constructs, at the most
MaxConns == 3

\* the callers of the facade: one caller makes its calls one after another;
\* two callers are two threads, each running its calls on an event loop of
\* its own (no coroutine of the module ever suspends, so calls made on one
\* event loop never overlap)
Callers == {1, 2}

FacadeCrud == {"a2db_ins", "a2db_sel", "a2db_updt", "a2db_del"}

\* A2FlightClient(): _client = None, _connected = False
NewConnection == [client |-> 0, connected |-> FALSE]

\* A2FlightClient.is_connected of the i-th Connection
IsConnected(i) == conns[i].connected /\ conns[i].client # 0

\* validate_config finds no error in the credential (the other settings are
\* taken as valid)
ConfigValid == HasCredential

\* how connect() can end once the handle is open
ConnectEnds ==
    IF ~HasCredential THEN {"connected"}
    ELSE {"connected"}
         \cup UNION {IF ProbeBranch(t) = "authenticate"
                     THEN {"connected", "raised"}
                     ELSE IF ProbeBranch(t) = "no_auth" THEN {"connected"}
                     ELSE {"raised"} : t \in ProbeTexts}

\* what a facade step leaves alone: the fields of the directly used
\* Connection and of the action protocol
FacadeFrame ==
    UNCHANGED <<api_key, client_name, client, connected, connect_called, pc,
                trace, cause, auth_error, outcome, avars, svars, cvars, wvars>>

\* mutant: a held Connection is reused whatever it reports
FacadeCallReusesAny(c, fn) ==
    /\ fcall[c].pc = "idle"
    /\ global_client # 0 \/ Len(conns) < MaxConns
    /\ fcall' = [fcall EXCEPT ![c] =
                    [fn |-> fn,
                     pc |-> IF global_client # 0 THEN "return" ELSE "construct",
                     held |-> global_client,
                     reuse |-> global_client # 0,
                     built |-> 0, connect |-> 0, client |-> 0,
                     delegated |-> 0, result |-> "none"]]
    /\ UNCHANGED <<global_client, conns, config_instance, live, opened>>
    /\ FacadeFrame

\* a2db_ins / a2db_sel / a2db_updt / a2db_del enter _get_global_client: the
\* test 'is None or not is_connected'
FacadeCall(c, fn) ==
    /\ fcall[c].pc = "idle"
    /\ LET reuse == global_client # 0 /\ IsConnected(global_client)
       IN  /\ reuse \/ Len(conns) < MaxConns
           /\ fcall' = [fcall EXCEPT ![c] =
                           [fn |-> fn,
                            pc |-> IF reuse THEN "return" ELSE "construct",
                            held |-> global_client,
                            reuse |-> reuse,
                            built |-> 0, connect |-> 0, client |-> 0,
                            delegated |-> 0, result |-> "none"]]
    /\ UNCHANGED <<global_client, conns, config_instance, live, opened>>
    /\ FacadeFrame

\* _global_client = A2FlightClient(): the constructor fetches the
\* configuration, which is loaded and validated on its first fetch only
GetConstruct(c) ==
    /\ fcall[c].pc = "construct"
    /\ config_instance' = TRUE
    /\ IF ~config_instance /\ ~ConfigValid
       THEN /\ fcall' = [fcall EXCEPT ![c].pc = "idle",
                                      ![c].result = "ValueError"]
            /\ UNCHANGED <<global_client, conns>>
       ELSE /\ Len(conns) < MaxConns
            /\ conns' = Append(conns, NewConnection)
            /\ global_client' = Len(conns) + 1
            /\ fcall' = [fcall EXCEPT ![c].pc = "connect",
                                      ![c].built = Len(conns) + 1]
    /\ UNCHANGED <<live, opened>>
    /\ FacadeFrame

\* await _global_client.connect(): on the Connection the global names now
GetConnect(c) ==
    /\ fcall[c].pc = "connect"
    /\ IF global_client = 0
       THEN /\ fcall' = [fcall EXCEPT ![c].pc = "idle",
                                      ![c].result = "AttributeError"]
            /\ UNCHANGED <<conns, live, opened>>
       ELSE \/ /\ fcall' = [fcall EXCEPT ![c].pc = "idle",
                                         ![c].connect = global_client,
                                         ![c].result = "connect_failed"]
               /\ UNCHANGED <<conns, live, opened>>
            \/ /\ opened < MaxOpens
               /\ opened' = opened + 1
               /\ live' = live \cup {opened + 1}
               /\ \E end \in ConnectEnds :
                    /\ conns' = [conns EXCEPT ![global_client] =
                                    [client |-> opened + 1,
                                     connected |-> (end = "connected")
                                                      \/ @.connected]]
                    /\ fcall' = [fcall EXCEPT
                          ![c].pc = IF end = "connected" THEN "return"
                                    ELSE "idle",
                          ![c].connect = global_client,
                          ![c].result = IF end = "connected" THEN "none"
                                        ELSE "connect_failed"]
    /\ UNCHANGED <<global_client, config_instance>>
    /\ FacadeFrame

\* return _global_client; client = await _get_global_client()
GetReturn(c) ==
    /\ fcall[c].pc = "return"
    /\ fcall' = [fcall EXCEPT ![c].pc = "delegate",
                              ![c].client = global_client]
    /\ UNCHANGED <<global_client, conns, config_instance, live, opened>>
    /\ FacadeFrame

\* mutant: a failing operation marks the Connection disconnected
DelegateFailureDisconnects(c) ==
    /\ fcall[c].pc = "delegate"
    /\ IF fcall[c].client = 0
       THEN /\ fcall' = [fcall EXCEPT ![c].pc = "idle",
                                      ![c].result = "AttributeError"]
            /\ UNCHANGED conns
       ELSE IF ~IsConnected(fcall[c].client)
       THEN /\ fcall' = [fcall EXCEPT ![c].pc = "idle",
                                      ![c].delegated = fcall[c].client,
                                      ![c].result = "NotConnected"]
            /\ UNCHANGED conns
       ELSE \/ /\ fcall' = [fcall EXCEPT ![c].pc = "idle",
                                         ![c].delegated = fcall[c].client,
                                         ![c].result = "return"]
               /\ UNCHANGED conns
            \/ /\ fcall' = [fcall EXCEPT ![c].pc = "idle",
                                         ![c].delegated = fcall[c].client,
                                         ![c].result = "op_failed"]
               /\ conns' = [conns EXCEPT ![fcall[c].client].connected = FALSE]
    /\ UNCHANGED <<global_client, config_instance, live, opened>>
    /\ FacadeFrame

\* return await client.insert(...) / select / update / delete
Delegate(c) ==
    /\ fcall[c].pc = "delegate"
    /\ IF fcall[c].client = 0
       THEN fcall' = [fcall EXCEPT ![c].pc = "idle",
                                   ![c].result = "AttributeError"]
       ELSE IF ~IsConnected(fcall[c].client)
       THEN fcall' = [fcall EXCEPT ![c].pc = "idle",
                                   ![c].delegated = fcall[c].client,
                                   ![c].result = "NotConnected"]
       ELSE \E r \in {"return", "op_failed"} :
               fcall' = [fcall EXCEPT ![c].pc = "idle",
                                      ![c].delegated = fcall[c].client,
                                      ![c].result = r]
    /\ UNCHANGED <<global_client, conns, config_instance, live, opened>>
    /\ FacadeFrame

\* the record of a finished a2db_close()
Closed(held) ==
    [fn |-> "a2db_close", pc |-> "idle", held |-> held, reuse |-> FALSE,
     built |-> 0, connect |-> 0, client |-> 0, delegated |-> 0,
     result |-> "return"]

\* mutant: the reference is kept
FacadeCloseKeepsReference(c) ==
    /\ fcall[c].pc = "idle"
    /\ fcall' = [fcall EXCEPT ![c] = Closed(global_client)]
    /\ IF global_client # 0
       THEN /\ conns' = [conns EXCEPT ![global_client] = NewConnection]
            /\ live' = live \ {conns[global_client].client}
       ELSE UNCHANGED <<conns, live>>
    /\ UNCHANGED <<global_client, config_instance, opened>>
    /\ FacadeFrame

\* mutant: every Connection the facade built is closed
FacadeCloseAll(c) ==
    /\ fcall[c].pc = "idle"
    /\ fcall' = [fcall EXCEPT ![c] = Closed(global_client)]
    /\ conns' = [i \in DOMAIN conns |-> NewConnection]
    /\ live' = live \ {conns[i].client : i \in DOMAIN conns}
    /\ global_client' = 0
    /\ UNCHANGED <<config_instance, opened>>
    /\ FacadeFrame

\* a2db_close(): close() of the held Connection, whose transport close may
\* raise and is then only logged, and _global_client = None
FacadeClose(c) ==
    /\ fcall[c].pc = "idle"
    /\ fcall' = [fcall EXCEPT ![c] = Closed(global_client)]
    /\ IF global_client # 0
       THEN /\ conns' = [conns EXCEPT ![global_client] = NewConnection]
            /\ \/ live' = live \ {conns[global_client].client}
               \/ /\ conns[global_client].client # 0
                  /\ live' = live
       ELSE UNCHANGED <<conns, live>>
    /\ global_client' = 0
    /\ UNCHANGED <<config_instance, opened>>
    /\ FacadeFrame

\* the steps of caller c
FacadeStep(c) ==
    \/ \E fn \in FacadeCrud : FacadeCall(c, fn)
    \/ GetConstruct(c)
    \/ GetConnect(c)
    \/ GetReturn(c)
    \/ Delegate(c)
    \/ FacadeClose(c)

\* facade calls made one after another
FacadeNext == FacadeStep(1)

FacadeSpec == Init /\ [][FacadeNext]_vars

\* the first call a thread makes is a CRUD call
FirstCall(c) ==
    /\ fcall[c].fn = "none"
    /\ \E fn \in FacadeCrud : FacadeCall(c, fn)

\* two threads, each making one CRUD call, its first call of the facade,
\* and closing the facade at any time
RaceNext ==
    \E c \in Callers :
        \/ FirstCall(c)
        \/ GetConstruct(c)
        \/ GetConnect(c)
        \/ GetReturn(c)
        \/ Delegate(c)
        \/ FacadeClose(c)

RaceSpec == Init /\ [][RaceNext]_vars

-----------------------------------------------------------------------------
\* A2FlightClient.select_streaming: an async generator.  Calling it builds the
\* generator and runs nothing; each resumption runs the body up to the next
\* yield, to the end or to the raise of the except clause.

\* generators built in a behaviour, at the most
MaxStreams == 2

\* chunks the server emits for one read, at the most
MaxChunks == 2

\* chunk.data of the chunks a reader delivers
StreamChunks == {<<[id |-> 1]>>, <<[id |-> 2]>>}

\* what the server emits for one do_get: its chunks in order
ServerReads == SeqsUpTo(StreamChunks, MaxChunks)

\* the error texts with which do_get or the reader fail
StreamTexts == {{}, {"unavailable"}}

\* the generator object select_streaming(query) returns: the body has not
\* started, no reader exists; connected_at_call records what the Connection
\* reported when the call was made, which the call itself never looks at
NewStream ==
    [state |-> "created", reads |-> 0, served |-> <<>>, yielded |-> <<>>,
     connected_at_call |-> connected /\ client # 0]

\* StopAsyncIteration: the generator has finished
StopAsyncIteration == [type |-> "StopAsyncIteration", msg |-> NoMsg]

\* the except clause of select_streaming()
SelectStreamingExcept(e) == ClientError(Wrap("SelectStreamingFailed", e.msg))

\* the generator has run to its end or raised
Finished(s) == [s EXCEPT !.state = "done"]

\* mutant: an exhausted reader is read again from its first chunk
LoopRestarts(s) ==
    IF Len(s.yielded) < Len(s.served)
    THEN {[stream |-> [s EXCEPT !.state = "open",
                                !.yielded = Append(@, s.served[Len(@) + 1])],
           outcome |-> Returned("select_streaming",
                                s.served[Len(s.yielded) + 1])]}
    ELSE {[stream |-> [s EXCEPT !.state = "open", !.yielded = <<>>],
           outcome |-> Raised("select_streaming", StopAsyncIteration)]}

\* for chunk in reader: yield chunk.data, from the reader's position: the
\* next chunk is yielded, or the reader ends and the generator returns, or
\* the reader raises and the except clause raises
Loop(s) ==
    IF Len(s.yielded) < Len(s.served)
    THEN {[stream |-> [s EXCEPT !.state = "open",
                                !.yielded = Append(@, s.served[Len(@) + 1])],
           outcome |-> Returned("select_streaming",
                                s.served[Len(s.yielded) + 1])]}
    ELSE {[stream |-> Finished(s),
           outcome |-> Raised("select_streaming", StopAsyncIteration)]}
         \cup {[stream |-> Finished(s),
                 outcome |-> Raised("select_streaming",
                                    SelectStreamingExcept(TransportError(t)))] :
                  t \in StreamTexts}

\* mutant: the body starts with do_get, without the connected check
StartUnchecked(s) ==
    {[stream |-> Finished([s EXCEPT !.reads = 1]),
      outcome |-> Raised("select_streaming",
                         SelectStreamingExcept(TransportError(t)))] :
        t \in StreamTexts}
    \cup UNION {Loop([s EXCEPT !.reads = 1, !.served = r]) : r \in ServerReads}

\* the first resumption: _ensure_connected, do_get, then the loop
Start(s) ==
    IF ~EnsureConnected
    THEN {[stream |-> Finished(s),
           outcome |-> Raised("select_streaming",
                              ClientError(Lit("NotConnected")))]}
    ELSE {[stream |-> Finished([s EXCEPT !.reads = 1]),
           outcome |-> Raised("select_streaming",
                              SelectStreamingExcept(TransportError(t)))] :
             t \in StreamTexts}
         \cup UNION {Loop([s EXCEPT !.reads = 1, !.served = r]) :
                        r \in ServerReads}

\* one resumption of a generator, by its state
Resume(s) ==
    CASE s.state = "created" -> Start(s)
      [] s.state = "open"    -> Loop(s)
      [] s.state = "done"    ->
            {[stream |-> s,
              outcome |-> Raised("select_streaming", StopAsyncIteration)]}

\* select_streaming(query): the call itself
SelectStreaming ==
    /\ Len(streams) < MaxStreams
    /\ streams' = Append(streams, NewStream)
    /\ UNCHANGED <<api_key, client_name, client, connected, live, opened,
                   connect_called, pc, trace, cause, auth_error, outcome,
                   avars, fvars, cvars, wvars>>

\* anext on the g-th generator (one turn of the caller's async for)
StreamNext(g) ==
    /\ g \in DOMAIN streams
    /\ \E r \in Resume(streams[g]) :
          /\ streams' = [streams EXCEPT ![g] = r.stream]
          /\ outcome' = r.outcome
    /\ UNCHANGED <<api_key, client_name, client, connected, live, opened,
                   connect_called, pc, trace, cause, auth_error, avars, fvars,
                   cvars, wvars>>

\* close() between two steps of the caller, the transport's own close
\* returning (when it raises, close() leaves the same fields behind)
StreamClose ==
    /\ Close
    /\ cause' = NoError

StreamSpecNext ==
    \/ SelectStreaming
    \/ \E g \in 1..MaxStreams : StreamNext(g)
    \/ StreamClose

\* select_streaming() and close() on one Connection, constructed or
\* connected once
StreamSpec == ActionInit /\ [][StreamSpecNext]_vars

-----------------------------------------------------------------------------
\* a2flight_cl_config.get_flight_client_config and the constructor that
\* calls it.  Of the configuration only the api key is followed: the other
\* fields are taken to pass validate_config.

\* an api key shorter than 32 characters
SHORT_KEY == "a2db_key_short"

\* an api key of 32 characters that does not start with 'a2db_key_'
ALIEN_KEY == "0123456789abcdef0123456789abcdef"

\* the api keys the environment file can hold
EnvKeys == ApiKeys \cup {SHORT_KEY, ALIEN_KEY}

\* len(config.api_key)
KeyLen(k) ==
    CASE k = ""        -> 0
      [] k = SENTINEL  -> 15
      [] k = SHORT_KEY -> 14
      [] k = ALIEN_KEY -> 32
      [] OTHER         -> 35

\* config.api_key.startswith('a2db_key_')
KeyHasPrefix(k) == k \notin {"", SENTINEL, ALIEN_KEY}

\* validate_config: the errors it returns
ValidateConfig(k) ==
    IF k = "" \/ k = SENTINEL THEN <<"api_key_required">>
    ELSE IF KeyLen(k) < 32 THEN <<"api_key_too_short">>
    ELSE IF ~KeyHasPrefix(k) THEN <<"api_key_format">>
    ELSE <<>>

\* ValueError("Configuration validation failed: ...")
ValueError == [type |-> "ValueError", msg |-> Lit("ConfigurationValidationFailed")]

\* the environment file is edited between two calls
SetEnv ==
    /\ env' \in EnvKeys \ {env}
    /\ UNCHANGED <<api_key, client_name, client, connected, live, opened,
                   connect_called, pc, trace, cause, auth_error, outcome,
                   avars, fvars, svars, config_call, wvars>>

\* get_flight_client_config(reload=...), called as fn: api_key is the key of
\* _config_instance once that is set
GetConfig(fn, reload) ==
    /\ config_call' = [fn |-> fn, reload |-> reload,
                       loaded |-> ~config_instance \/ reload]
    /\ IF ~config_instance \/ reload
       THEN /\ config_instance' = TRUE
            /\ api_key' = env
            /\ outcome' = IF ValidateConfig(env) # <<>>
                          THEN Raised(fn, ValueError)
                          ELSE Returned(fn, env)
       ELSE /\ outcome' = Returned(fn, api_key)
            /\ UNCHANGED <<config_instance, api_key>>
    /\ UNCHANGED <<client_name, client, connected, live, opened,
                   connect_called, pc, trace, cause, auth_error, avars,
                   global_client, conns, fcall, svars, env, wvars>>

\* get_flight_client_config() and get_flight_client_config(reload=True)
GetFlightClientConfig == \E reload \in BOOLEAN :
    GetConfig("get_flight_client_config", reload)

\* A2FlightClient(): self.config = config or get_flight_client_config()
Construct == GetConfig("A2FlightClient", FALSE)

\* the module as imported, with any environment file
ConfigInit ==
    /\ api_key = ""
    /\ client_name = {}
    /\ client = 0
    /\ connected = FALSE
    /\ live = {}
    /\ opened = 0
    /\ connect_called = FALSE
    /\ pc = "idle"
    /\ trace = <<>>
    /\ cause = NoError
    /\ auth_error = NoError
    /\ outcome = NoOutcome
    /\ ActionIdle
    /\ FacadeIdle
    /\ StreamIdle
    /\ env \in EnvKeys
    /\ config_call = NoConfigCall
    /\ WithIdle

ConfigNext ==
    \/ SetEnv
    \/ GetFlightClientConfig
    \/ Construct

ConfigSpec == ConfigInit /\ [][ConfigNext]_vars

-----------------------------------------------------------------------------
\* The context-manager forms: 'async with A2FlightClient() as client'
\* (__aenter__ / __aexit__) and 'async with create_flight_client() as client',
\* each on the Connection it has just constructed

WithForms == {"aenter", "create_flight_client"}

\* an exception of the body that no call of the client raised
BodyError == [type |-> "BodyError", msg |-> NoMsg]

\* the statement is entered: __aenter__, or the generator of
\* create_flight_client up to its try, starts connect()
WithEnter(form) ==
    /\ ctx.pc = "none"
    /\ ctx' = [form |-> form, pc |-> "connect", raised |-> NoError]
    /\ UNCHANGED <<api_key, client_name, client, connected, live, opened,
                   connect_called, pc, trace, cause, auth_error, outcome,
                   avars, fvars, svars, cvars>>

\* await self.connect() / await client.connect(): the steps of connect()
WithConnect ==
    /\ ctx.pc = "connect"
    /\ outcome.op # "connect"
    /\ \/ ConnectOpenFails
       \/ ConnectOpen
       \/ ConnectProbeOk
       \/ ConnectProbeFails
       \/ ConnectAuthOk
       \/ ConnectAuthFails

\* connect() returned: __aenter__ returns self, create_flight_client yields
\* the client, and the body starts
WithEntered ==
    /\ ctx.pc = "connect"
    /\ outcome.op = "connect"
    /\ outcome.kind = "return"
    /\ ctx' = [ctx EXCEPT !.pc = "body"]
    /\ UNCHANGED <<api_key, client_name, client, connected, live, opened,
                   connect_called, pc, trace, cause, auth_error, outcome,
                   avars, fvars, svars, cvars>>

\* connect() raised: __aenter__ raises and __aexit__ is never called, while
\* in create_flight_client the finally clause runs close()
WithEnterFails ==
    /\ ctx.pc = "connect"
    /\ outcome.op = "connect"
    /\ outcome.kind = "raise"
    /\ ctx' = [ctx EXCEPT !.pc = IF ctx.form = "aenter" THEN "done"
                                 ELSE "exit",
                          !.raised = outcome.error]
    /\ UNCHANGED <<api_key, client_name, client, connected, live, opened,
                   connect_called, pc, trace, cause, auth_error, outcome,
                   avars, fvars, svars, cvars>>

\* a CRUD call made by the body
WithBodyCall ==
    /\ ctx.pc = "body"
    /\ Insert \/ Select \/ Update \/ Delete

\* the body ends: it completes, or it raises the error of its last call, or
\* an error of its own; __aexit__ or the finally clause is entered
WithBodyEnds ==
    /\ ctx.pc = "body"
    /\ \E e \in {NoError, BodyError}
               \cup (IF outcome.kind = "raise" THEN {outcome.error} ELSE {}) :
          ctx' = [ctx EXCEPT !.pc = "exit", !.raised = e]
    /\ UNCHANGED <<api_key, client_name, client, connected, live, opened,
                   connect_called, pc, trace, cause, auth_error, outcome,
                   avars, fvars, svars, cvars>>

\* await self.close() in __aexit__ / await client.close() in finally
WithClose ==
    /\ ctx.pc = "exit"
    /\ outcome.op # "close"
    /\ Close

\* __aexit__ returns False, the finally clause ends: the exception, if any,
\* goes on to the caller
WithDone ==
    /\ ctx.pc = "exit"
    /\ outcome.op = "close"
    /\ ctx' = [ctx EXCEPT !.pc = "done"]
    /\ UNCHANGED <<api_key, client_name, client, connected, live, opened,
                   connect_called, pc, trace, cause, auth_error, outcome,
                   avars, fvars, svars, cvars>>

WithNext ==
    \/ \E form \in WithForms : WithEnter(form)
    \/ WithConnect
    \/ WithEntered
    \/ WithEnterFails
    \/ WithBodyCall
    \/ WithBodyEnds
    \/ WithClose
    \/ WithDone

\* one 'async with' statement, in either form
WithSpec == Init /\ [][WithNext]_vars

-----------------------------------------------------------------------------
\* Vocabulary of the properties

CrudOps == {"insert", "select", "update", "delete"}

\* how many times the current call made the transport call c
Calls(c) == Cardinality({i \in DOMAIN trace : trace[i] = c})

\* the state error of _ensure_connected
NotConnectedError == ClientError(Lit("NotConnected"))

\* the current connect() opened its handle
OpenSucceeded == Len(trace) >= 1 /\ trace[1] = "FlightClient"
                 /\ (Len(trace) >= 2 => trace[2] # "raised")

-----------------------------------------------------------------------------
\* C1: on a Connection on which connect() was never called, each of insert,
\* select, update and delete raises the "Not connected" state error, makes no
\* transport call, does not call connect(), and leaves the handle null and
\* the connected flag false.
C1_NeverConnectedCrudRaises ==
    [][ (~connect_called /\ (Insert \/ Select \/ Update \/ Delete))
        => /\ outcome'.kind = "raise"
           /\ outcome'.error = NotConnectedError
           /\ trace' = <<>>
           /\ ~connect_called'
           /\ opened' = 0
           /\ live' = {}
           /\ client' = 0
           /\ connected' = FALSE ]_vars

C1_Witness ==
    /\ ~connect_called
    /\ outcome.op = "update"
    /\ outcome.kind = "raise"
    /\ client = 0

-----------------------------------------------------------------------------
\* C2: connect() with an empty credential or the sentinel '<to be entered>'
\* never calls list_actions and never calls authenticate, and when the
\* handle was opened it ends with the connected flag true and returns True.
C2_NoCredentialSkipsDetection ==
    (api_key = "" \/ api_key = "<to be entered>")
    => /\ pc = "idle"
       /\ Calls("list_actions") = 0
       /\ Calls("authenticate_basic_token") = 0
       /\ (outcome.op = "connect" /\ OpenSucceeded)
          => /\ connected
             /\ outcome.kind = "return"
             /\ outcome.value = "True"
             /\ trace = <<"FlightClient", "connected=True">>

C2_Witness ==
    /\ api_key = "<to be entered>"
    /\ outcome = Returned("connect", "True")
    /\ connected
    /\ client # 0

-----------------------------------------------------------------------------
\* Classes of the probe's error text

IsAuthClassText(t) == "unauthenticated" \in t \/ "unauthorized" \in t

IsNotImplementedText(t) ==
    "unimplemented" \in t /\ "authentication" \in t /\ ~IsAuthClassText(t)

IsOtherText(t) == ~IsAuthClassText(t) /\ ~IsNotImplementedText(t)

\* the probe of the current connect() raised and no later transport call did,
\* so that cause is the probe's error
OnlyProbeRaised ==
    /\ Len(trace) >= 3
    /\ trace[2] = "list_actions"
    /\ trace[3] = "raised"
    /\ Calls("raised") = 1

\* the probe of the current connect() returned
ProbeReturned ==
    /\ Len(trace) >= 2
    /\ trace[2] = "list_actions"
    /\ (Len(trace) >= 3 => trace[3] # "raised")

\* authenticate_basic_token of the current connect() raised: cause is its error
AuthRaised ==
    /\ Len(trace) = 5
    /\ trace[4] = "authenticate_basic_token"
    /\ trace[5] = "raised"

AuthenticatedTrace ==
    <<"FlightClient", "list_actions", "raised", "authenticate_basic_token",
      "connected=True">>

AuthFailedTrace ==
    <<"FlightClient", "list_actions", "raised", "authenticate_basic_token",
      "raised">>

-----------------------------------------------------------------------------
\* C3: connect() with a real credential, when the probe fails with a text
\* containing 'unauthenticated' or 'unauthorized', calls authenticate exactly
\* once, after the probe and before the connected flag is written: right
\* after such a probe the call stands before authenticate with nothing else
\* done, and every call that authenticated did so once, after the failed
\* probe, and wrote the flag only afterwards.
C3_AuthClassProbeAuthenticatesOnce ==
    /\ (OnlyProbeRaised /\ IsAuthClassText(cause.msg.text))
       => \/ pc = "auth" /\ trace = <<"FlightClient", "list_actions", "raised">>
          \/ pc = "idle" /\ trace = AuthenticatedTrace
    /\ pc = "auth" => trace = <<"FlightClient", "list_actions", "raised">>
    /\ Calls("authenticate_basic_token") >= 1
       => /\ pc = "idle"
          /\ Calls("authenticate_basic_token") = 1
          /\ trace \in {AuthenticatedTrace, AuthFailedTrace}

C3_Witness ==
    /\ pc = "idle"
    /\ trace = AuthenticatedTrace
    /\ "unauthorized" \in cause.msg.text
    /\ "unauthenticated" \notin cause.msg.text
    /\ connected

-----------------------------------------------------------------------------
\* C4: when the probe failed with an authentication-class error, connect()
\* writes the connected flag only after authenticate returned; when
\* authenticate raises, connect() raises a connection error of the client
\* and leaves the flag as it was.
C4_FlagOnlyAfterAuthenticate ==
    /\ []((OnlyProbeRaised /\ IsAuthClassText(cause.msg.text))
           => (Calls("connected=True") > 0 => trace = AuthenticatedTrace))
    /\ [][ (pc = "probe" /\ pc' = "auth") => connected' = connected ]_vars
    /\ [][ (pc = "auth" /\ connected' # connected)
            => trace' = AuthenticatedTrace ]_vars
    /\ [][ (pc = "auth" /\ pc' = "idle" /\ trace' = AuthFailedTrace)
            => /\ outcome'.op = "connect"
               /\ outcome'.kind = "raise"
               /\ outcome'.error.type = "A2FlightClientError"
               /\ Head(outcome'.error.msg.wrap)
                    \in {"ConnectionFailed", "ServerNotRunning"}
               /\ connected' = connected ]_vars

C4_Witness ==
    /\ pc = "idle"
    /\ trace = AuthFailedTrace
    /\ outcome.kind = "raise"
    /\ ~connected

-----------------------------------------------------------------------------
\* C5: connect() with a real credential, when the probe returns, never calls
\* authenticate and ends connected.
C5_ProbeSuccessNoAuthenticate ==
    ProbeReturned
    => /\ api_key \notin {"", "<to be entered>"}
       /\ pc = "idle"
       /\ trace = <<"FlightClient", "list_actions", "connected=True">>
       /\ connected
       /\ outcome = Returned("connect", "True")

C5_Witness ==
    /\ trace = <<"FlightClient", "list_actions", "connected=True">>
    /\ connected
    /\ api_key \notin {"", "<to be entered>"}

-----------------------------------------------------------------------------
\* C6: connect() with a real credential, when the probe fails with a text of
\* the not-implemented class ('unimplemented' and 'authentication', and not of
\* the authentication class, which is tested first), never calls
\* authenticate, raises nothing and ends connected.
C6_NotImplementedProbeConnects ==
    (OnlyProbeRaised /\ IsNotImplementedText(cause.msg.text))
    => /\ pc = "idle"
       /\ trace = <<"FlightClient", "list_actions", "raised", "connected=True">>
       /\ connected
       /\ outcome = Returned("connect", "True")

C6_Witness ==
    /\ OnlyProbeRaised
    /\ {"unimplemented", "authentication"} \subseteq cause.msg.text
    /\ connected
    /\ outcome = Returned("connect", "True")

-----------------------------------------------------------------------------
\* C7 (as stated): when the probe fails with an error that is neither of the
\* authentication class nor of the not-implemented class, connect() raises
\* that same error, not re-wrapped, never calls authenticate and does not
\* write the connected flag.
C7_ProbeErrorPropagatesUnchanged ==
    (OnlyProbeRaised /\ IsOtherText(cause.msg.text))
    => /\ pc = "idle"
       /\ outcome.kind = "raise"
       /\ outcome.error = cause
       /\ trace = <<"FlightClient", "list_actions", "raised">>

\* C7 (amended): for such a probe error connect() raises an
\* A2FlightClientError built by its outer handler: the 'server is not
\* running' message when the text contains 'unavailable', 'failed to connect'
\* or 'connection refused', and otherwise 'Connection failed: ' followed by
\* the original text; it never calls authenticate and leaves the connected
\* flag as it was.
C7_ProbeErrorWrapped ==
    /\ []((OnlyProbeRaised /\ IsOtherText(cause.msg.text))
           => /\ pc = "idle"
              /\ outcome.op = "connect"
              /\ outcome.kind = "raise"
              /\ outcome.error.type = "A2FlightClientError"
              /\ outcome.error.msg =
                    IF cause.msg.text \cap
                         {"unavailable", "failed to connect", "connection refused"}
                         # {}
                    THEN Lit("ServerNotRunning")
                    ELSE Wrap("ConnectionFailed", cause.msg)
              /\ trace = <<"FlightClient", "list_actions", "raised">>)
    /\ [][ (pc = "probe" /\ pc' = "idle" /\ outcome'.kind = "raise")
            => connected' = connected ]_vars

C7_Witness ==
    /\ OnlyProbeRaised
    /\ cause.msg.text = {"unimplemented"}
    /\ outcome.kind = "raise"
    /\ outcome.error = ClientError(Wrap("ConnectionFailed", cause.msg))
    /\ outcome.error # cause

-----------------------------------------------------------------------------
\* the templates of the five classes of _authenticate
AuthTemplates ==
    {"AuthInvalidKey", "AuthIpNotWhitelisted", "AuthClientDisabled",
     "AuthGeneric", "AuthUnknown"}

\* C8 (as stated): connect() raises 'server is not running' only for a
\* transport-level failure and never for a failed authenticate step: a failed
\* authenticate always surfaces as the authentication error, whatever text
\* the server returned.
C8_AuthFailureNeverServerNotRunning ==
    /\ AuthRaised
       => /\ outcome.kind = "raise"
          /\ outcome.error.msg # Lit("ServerNotRunning")
          /\ outcome.error.msg = Wrap("ConnectionFailed", auth_error.msg)
    /\ (outcome.op = "connect" /\ outcome.error.msg = Lit("ServerNotRunning"))
       => /\ ~AuthRaised
          /\ cause.msg.text \cap OuterPats # {}

-----------------------------------------------------------------------------
\* C9: every failure of the authenticate step raises the error of exactly one
\* of the five classes, the first that matches in the order invalid api key,
\* ip not whitelisted / access denied, client disabled, unauthenticated,
\* and unknown when none matches.
C9_AuthFailureFirstMatchClass ==
    AuthRaised
    => LET t    == cause.msg.text
           tmpl == Head(auth_error.msg.wrap)
           key  == "invalid api key" \in t
           ip   == "ip not whitelisted" \in t \/ "access denied" \in t
           dis  == "client disabled" \in t
           una  == "unauthenticated" \in t
       IN  /\ auth_error.type = "A2FlightClientError"
           /\ Len(auth_error.msg.wrap) = 1
           /\ tmpl \in AuthTemplates
           /\ tmpl = "AuthInvalidKey" <=> key
           /\ tmpl = "AuthIpNotWhitelisted" <=> (~key /\ ip)
           /\ tmpl = "AuthClientDisabled" <=> (~key /\ ~ip /\ dis)
           /\ tmpl = "AuthGeneric" <=> (~key /\ ~ip /\ ~dis /\ una)
           /\ tmpl = "AuthUnknown" <=> (~key /\ ~ip /\ ~dis /\ ~una)

C9_Witness ==
    /\ AuthRaised
    /\ {"invalid api key", "ip not whitelisted", "unauthenticated"}
          \subseteq cause.msg.text
    /\ auth_error = ClientError(Lit("AuthInvalidKey"))

-----------------------------------------------------------------------------
\* C10 (as stated): for every authentication failure, in each of the five
\* classes, the error _authenticate raises contains the original error text
\* returned by the transport.
C10_AuthErrorKeepsOriginalText ==
    AuthRaised
    => /\ auth_error.msg.has
       /\ auth_error.msg.text = cause.msg.text

-----------------------------------------------------------------------------
\* C11 (as stated): every error that connect(), insert(), select(), update()
\* or delete() raises for a failure of the transport contains the original
\* text of the transport's error, the 'server is not running' message
\* included.
C11_TransportErrorKeepsOriginalText ==
    (/\ pc = "idle"
     /\ outcome.kind = "raise"
     /\ outcome.op \in {"connect"} \cup CrudOps
     /\ cause.type = "FlightError")
    => /\ outcome.error.msg.has
       /\ outcome.error.msg.text = cause.msg.text

-----------------------------------------------------------------------------
\* the calls a retry would repeat
DataCalls == {"do_put", "do_get", "do_action"}

ConnectCalls == {"FlightClient", "list_actions", "authenticate_basic_token"}

\* C16: no call retries. Within one call, the handle is opened at most once,
\* the probe and authenticate run at most once each and at most one
\* do_put / do_get / do_action is made; a transport call that failed is the
\* last one of its call, the one call that can follow a failure being the
\* single authenticate that connect() makes right after the probe raised
\* (the detection step of C3, which is not a repetition of any call).
C16_NoRetries ==
    /\ \A c \in ConnectCalls \cup DataCalls : Calls(c) <= 1
    /\ Cardinality({i \in DOMAIN trace : trace[i] \in DataCalls}) <= 1
    /\ \A i, j \in DOMAIN trace :
          (/\ trace[i] = "raised"
           /\ i < j
           /\ trace[j] \notin {"raised", "connected=True"})
          => /\ trace[i - 1] = "list_actions"
             /\ j = i + 1
             /\ trace[j] = "authenticate_basic_token"

C16_Witness ==
    /\ outcome.kind = "raise"
    /\ outcome.op = "insert"
    /\ trace = <<"do_put", "raised">>

-----------------------------------------------------------------------------
\* Claims about update() and delete(), under ActionSpec

\* the latest call is an update() or delete() that passed the connected check
\* and has ended
ActionEnded == pc = "idle" /\ call \in ActionOps /\ EnsureConnected

\* the latest call handed bytes to the decoder
Decoded == ActionEnded /\ Calls("open_stream") = 1

\* the typed error of the operation around the message of e
TypedError(op, e) ==
    ClientError(Wrap(IF op = "update" THEN "UpdateFailed" ELSE "DeleteFailed",
                     e.msg))

\* C17: update(batch, name) on a connected Connection hands the transport
\* exactly one Action, named 'update', and delete(batch, name) exactly one
\* named 'delete'; the body decodes to the envelope table of one row whose
\* table_name is the caller's name and whose data is the encoding of the
\* caller's batch.
C17_OneActionCarriesEnvelope ==
    /\ call \in ActionOps => Calls("do_action") <= 1
    /\ (call \in ActionOps /\ outcome.kind = "return")
       => Calls("do_action") = 1
    /\ pc = "action"
       => /\ trace = <<"do_action">>
          /\ request.type = call
          /\ IpcValid(request.body)
          /\ LET envelope == IpcDecode(request.body)
             IN  /\ envelope.cols = <<"table_name", "data">>
                 /\ NumRows(envelope) = 1
                 /\ Rows(envelope)[1].table_name = args.name
                 /\ Rows(envelope)[1].data = IpcEncode(args.batch)

C17_Witness ==
    /\ pc = "action"
    /\ call = "delete"
    /\ request.type = "delete"
    /\ args.name = "u"
    /\ NumRows(args.batch) = 2

-----------------------------------------------------------------------------
\* C18: in update() and delete() the bytes handed to the decoder are the
\* bodies of all the chunks of the response, joined in the order they
\* arrived: the loop takes the chunks one by one from the front of the
\* stream, the bytes read so far are the chunks consumed so far in order,
\* and decoding starts only when the stream is exhausted.
C18_DecodedIsConcatenation ==
    /\ [](pc = "read" => result_bytes = Concat(received))
    /\ [][(pc = "read" /\ pc' = "read")
            => /\ received' \o pending' = received \o pending
               /\ Len(received') = Len(received) + 1]_vars
    /\ [][(pc = "read" /\ Calls("open_stream")' = 1)
            => /\ pending = <<>>
               /\ decoded' = Concat(received)]_vars

C18_Witness ==
    /\ pc = "read"
    /\ pending = <<>>
    /\ Len(received) = 2
    /\ result_bytes = received[1] \o received[2]
    /\ IpcValid(result_bytes)

-----------------------------------------------------------------------------
\* row 0 of the decoded response holds a boolean success and an integer
\* rows_affected
CarriesResult ==
    /\ Decoded
    /\ IpcValid(decoded)
    /\ HasCol(IpcDecode(decoded), "success")
    /\ HasCol(IpcDecode(decoded), "rows_affected")
    /\ NumRows(IpcDecode(decoded)) >= 1
    /\ ~Rows(IpcDecode(decoded))[1].success.null
    /\ ~Rows(IpcDecode(decoded))[1].rows_affected.null

\* C19: for every update/delete response that carries success and
\* rows_affected (a row 0 with a boolean and an integer, as the spec types
\* them), the operation returns a result and raises nothing: with
\* method_used = null when the response has no method_used field, and with
\* the row-0 value of the field when it has one.
C19_MethodUsedOptional ==
    CarriesResult
    => /\ outcome.kind = "return"
       /\ outcome.error = NoError
       /\ outcome.value.method_used =
             IF HasCol(IpcDecode(decoded), "method_used")
             THEN Rows(IpcDecode(decoded))[1].method_used
             ELSE PyNone

C19_Witness ==
    /\ CarriesResult
    /\ call = "update"
    /\ IpcDecode(decoded).cols = <<"success", "rows_affected">>
    /\ outcome = Returned("update",
                          Result(BoolCell(TRUE), IntCell(1), PyNone))

-----------------------------------------------------------------------------
\* C20: every failure of update() or delete() after the connected check
\* (the encoding, the action call, the read of a chunk, the decoding, a
\* missing success or rows_affected field, an empty response) is raised as
\* the typed error of the operation, 'UPDATE failed' or 'DELETE failed',
\* around the text of the original cause, and no result is returned.
C20_FailureRaisedTyped ==
    /\ (ActionEnded /\ cause # NoError)
       => /\ outcome.kind = "raise"
          /\ outcome.value = "none"
          /\ outcome.error = TypedError(call, cause)
          /\ outcome.error.msg.has
          /\ outcome.error.msg.text = cause.msg.text
    /\ ActionEnded
       => (outcome.kind = "raise" <=> cause # NoError)
    /\ (/\ Decoded
        /\ \/ ~IpcValid(decoded)
           \/ ~HasCol(IpcDecode(decoded), "success")
           \/ ~HasCol(IpcDecode(decoded), "rows_affected")
           \/ NumRows(IpcDecode(decoded)) = 0)
       => /\ outcome.kind = "raise"
          /\ cause.type \in {"ArrowInvalid", "KeyError", "IndexError"}
    /\ (ActionEnded /\ "raised" \in {trace[i] : i \in DOMAIN trace})
       => /\ outcome.kind = "raise"
          /\ cause.type = "FlightError"

C20_Witness ==
    /\ Decoded
    /\ call = "delete"
    /\ IpcValid(decoded)
    /\ NumRows(IpcDecode(decoded)) = 0
    /\ cause = PyError("IndexError", "index out of bounds")
    /\ outcome = Raised("delete",
                        TypedError("delete", PyError("IndexError",
                                                     "index out of bounds")))

-----------------------------------------------------------------------------
\* Claims about the facade, under FacadeSpec (calls made one after another)
\* and RaceSpec (two threads)

\* the Connections the facade built that hold a transport handle
Holding == {i \in DOMAIN conns : conns[i].client # 0}

\* C12 (as stated): after any sequence of facade calls made one after
\* another, failing ones included, at most one Connection constructed by the
\* facade holds a transport handle that was opened and not yet closed.
C12_AtMostOneHandleHeld ==
    fcall[1].pc = "idle" => Cardinality(Holding) <= 1

-----------------------------------------------------------------------------
\* C13: when two callers make their first facade CRUD call concurrently while
\* no Connection exists, both can construct and connect a Connection of
\* their own (the state of C13_Witness); the one stored first is then no
\* longer referenced by the facade and is never closed: a Connection the
\* facade does not reference is never referenced by it again and no step
\* changes it or releases its handle.
C13_UnreferencedNeverClosed ==
    [][\A i \in DOMAIN conns :
          i # global_client
          => /\ global_client' # i
             /\ conns'[i] = conns[i]
             /\ conns[i].client \in live => conns[i].client \in live']_vars

C13_Witness ==
    /\ fcall[1].built # 0
    /\ fcall[2].built # 0
    /\ fcall[1].built # fcall[2].built
    /\ fcall[1].connect = fcall[1].built
    /\ fcall[2].connect = fcall[2].built
    /\ IsConnected(fcall[1].built)
    /\ IsConnected(fcall[2].built)
    /\ global_client # 0
    /\ \E c \in Callers :
          /\ fcall[c].built # global_client
          /\ conns[fcall[c].built].client \in live

-----------------------------------------------------------------------------
\* the Connection the facade holds reports connected
HeldConnected == global_client # 0 /\ IsConnected(global_client)

\* C14: a facade CRUD call runs the construct-and-connect branch exactly
\* when the facade holds no Connection or the held one reports disconnected,
\* and otherwise reuses the held one: in the branch the constructor is
\* called (it raises on a configuration that fails its first validation)
\* and connect() is called on the new Connection, which the facade then
\* holds. The CRUD operation is called only on a Connection that is
\* connected at that moment, and not at all when the connect failed.
C14_ConstructExactlyWhenNeeded ==
    /\ [][(fcall[1].pc = "idle" /\ fcall'[1].pc # "idle")
            => /\ fcall'[1].reuse <=> HeldConnected
               /\ fcall'[1].pc = IF HeldConnected THEN "return"
                                 ELSE "construct"]_vars
    /\ [](LET r == fcall[1]
          IN  r.fn \in FacadeCrud
              => /\ r.reuse
                    => /\ r.built = 0
                       /\ r.connect = 0
                       /\ r.held = global_client
                       /\ r.client \in {0, r.held}
                 /\ r.built # 0
                    => /\ ~r.reuse
                       /\ r.built = global_client
                       /\ r.built \notin {r.held}
                       /\ r.connect \in {0, r.built}
                 /\ (~r.reuse /\ r.pc \in {"return", "delegate", "idle"})
                    => \/ r.result = "ValueError" /\ r.built = 0
                       \/ r.built # 0 /\ r.connect = r.built
                 /\ r.pc = "delegate"
                    => /\ r.client = global_client
                       /\ IsConnected(r.client)
                 /\ r.delegated # 0
                    => /\ r.delegated = global_client
                       /\ IsConnected(r.delegated)
                       /\ r.result \in {"return", "op_failed"}
                 /\ r.result \in {"ValueError", "connect_failed"}
                    => /\ r.delegated = 0
                       /\ r.client = 0
                 /\ (r.pc = "idle" /\ r.delegated = 0)
                    => r.result \in {"ValueError", "connect_failed"})

C14_Witness ==
    /\ fcall[1].fn = "a2db_updt"
    /\ fcall[1].pc = "idle"
    /\ fcall[1].held # 0
    /\ ~fcall[1].reuse
    /\ fcall[1].built = 3
    /\ fcall[1].delegated = 3
    /\ fcall[1].result = "return"

-----------------------------------------------------------------------------
\* C15: when a2db_close() returns the facade holds no Connection and the one
\* it held is closed: its handle is null and its flag false; with no
\* Connection held a2db_close() changes nothing; the CRUD call that follows
\* runs the construct-and-connect branch, on a Connection that did not exist
\* before.
C15_CloseClearsReference ==
    /\ [][(/\ fcall[1].pc = "idle"
           /\ fcall'[1].pc = "idle"
           /\ fcall'[1].fn = "a2db_close")
            => /\ global_client' = 0
               /\ global_client # 0
                  => /\ conns'[global_client].client = 0
                     /\ ~conns'[global_client].connected
                     /\ \A i \in DOMAIN conns :
                           i # global_client => conns'[i] = conns[i]
               /\ global_client = 0
                  => UNCHANGED <<conns, live, opened, config_instance>>]_vars
    /\ [][(/\ fcall[1].fn = "a2db_close"
           /\ fcall[1].pc = "idle"
           /\ fcall'[1].pc # "idle")
            => /\ fcall'[1].fn \in FacadeCrud
               /\ fcall'[1].pc = "construct"]_vars
    /\ [][(fcall[1].pc = "construct" /\ fcall'[1].pc = "connect")
            => /\ Len(conns') = Len(conns) + 1
               /\ global_client' = Len(conns')
               /\ conns'[global_client'] = NewConnection]_vars
    /\ [][(fcall[1].pc = "connect" /\ fcall'[1].connect # 0)
            => fcall'[1].connect = fcall[1].built]_vars

C15_Witness ==
    /\ fcall[1].fn \in FacadeCrud
    /\ fcall[1].held = 0
    /\ fcall[1].built = 2
    /\ fcall[1].connect = 2
    /\ conns[1] = NewConnection
    /\ IsConnected(2)
    /\ live = {2}

-----------------------------------------------------------------------------
\* Claims about the encoding of the caller's batch, under ActionSpec

\* table.equals(other): the same schema and the same rows, whatever the chunks
TableEquals(a, b) == a.cols = b.cols /\ Rows(a) = Rows(b)

\* the envelope row of the Action that is with the transport
EnvelopeRow == Rows(IpcDecode(request.body))[1]

\* C21: for every table name and batch, decoding the envelope bytes that
\* update() or delete() built gives one row whose table_name is the given
\* name and whose data payload decodes to a batch equal to the given batch.
C21_EnvelopeDecodesToArguments ==
    pc = "action"
    => /\ IpcValid(request.body)
       /\ NumRows(IpcDecode(request.body)) = 1
       /\ EnvelopeRow.table_name = args.name
       /\ IpcValid(EnvelopeRow.data)
       /\ TableEquals(IpcDecode(EnvelopeRow.data), args.batch)

C21_Witness ==
    /\ pc = "action"
    /\ call = "update"
    /\ args.name = "t"
    /\ Len(args.batch.chunks) = 2
    /\ Len(args.batch.chunks[2]) = 1
    /\ Rows(IpcDecode(EnvelopeRow.data)) = Rows(args.batch)

C23_ZeroRowBatchIsSent ==
    /\ (ActionEnded /\ Calls("do_action") = 0)
       => /\ outcome.kind = "raise"
          /\ cause.type = "AttributeError"
    /\ (pc = "action" /\ NumRows(args.batch) = 0)
       => /\ request = Action(call, args.name, args.batch)
          /\ trace = <<"do_action">>
          /\ outcome = NoOutcome
          /\ NumRows(IpcDecode(EnvelopeRow.data)) = 0
          /\ IpcDecode(EnvelopeRow.data).cols = args.batch.cols

C23_Witness ==
    /\ pc = "action"
    /\ call = "delete"
    /\ NumRows(args.batch) = 0
    /\ args.batch.chunks # <<>>
    /\ request.type = "delete"
    /\ EnvelopeRow.data = <<SchemaMsg(args.batch.cols), EosMsg>>

-----------------------------------------------------------------------------
\* C24: insert(batch, name) on a connected Connection opens the writer with
\* do_put, then writes the table, then closes the writer, in that order, and
\* only after the close returns a result with success true and rows_written
\* the number of rows of the batch.
InsertCalls == <<"do_put", "write_table", "writer.close">>

C24_InsertOrderAndResult ==
    /\ [](call = "insert"
            => /\ \E k \in 0..3 :
                    \/ trace = SubSeq(InsertCalls, 1, k)
                    \/ trace = SubSeq(InsertCalls, 1, k) \o <<"raised">>
               /\ outcome.kind = "return"
                    => /\ trace = InsertCalls
                       /\ outcome.value.success = TRUE)
    /\ [][(call' = "insert" /\ outcome'.kind = "return" /\ pc # "idle")
            => /\ trace = <<"do_put", "write_table">>
               /\ request.body \o <<EosMsg>> = IpcEncode(args.batch)
               /\ outcome'.value.rows_written = NumRows(args.batch)]_vars

C24_Witness ==
    /\ call = "insert"
    /\ pc = "idle"
    /\ trace = InsertCalls
    /\ outcome.kind = "return"
    /\ outcome.value.success = TRUE
    /\ outcome.value.rows_written = 2

-----------------------------------------------------------------------------
\* Claims about select_streaming(), under StreamSpec

\* a is b or b with one more element
ExtendsByOne(a, b) ==
    \/ a = b
    \/ Len(a) = Len(b) + 1 /\ SubSeq(a, 1, Len(b)) = b

\* C25: select_streaming yields the server's chunks each exactly once and in
\* the order the server emitted them, then ends; a finished or partly
\* consumed sequence cannot be restarted: a generator reads at most once,
\* its yielded chunks only grow by the next chunk of that one read, a
\* finished generator stays finished, and a further pass over the result
\* comes from a new select_streaming call, which issues a read of its own.
C25_ChunksOnceInOrder ==
    /\ [](\A g \in DOMAIN streams :
            /\ streams[g].reads <= 1
            /\ streams[g].yielded
                 = SubSeq(streams[g].served, 1, Len(streams[g].yielded))
            /\ (streams[g].state = "done" /\ streams[g].reads = 1)
                 => streams[g].yielded = streams[g].served
            /\ streams[g].yielded # <<>> => streams[g].reads = 1)
    /\ [][\A g \in DOMAIN streams :
            /\ ExtendsByOne(streams'[g].yielded, streams[g].yielded)
            /\ streams[g].state # "created"
                 => /\ streams'[g].served = streams[g].served
                    /\ streams'[g].reads = streams[g].reads
            /\ streams[g].state = "done" => streams'[g] = streams[g]
            /\ (outcome'.kind = "return" /\ streams'[g] # streams[g])
                 => /\ Len(streams'[g].yielded) = Len(streams[g].yielded) + 1
                    /\ outcome'.value
                         = streams'[g].served[Len(streams'[g].yielded)]]_vars

C25_Witness ==
    /\ Len(streams) = 2
    /\ streams[1].state = "done"
    /\ Len(streams[1].yielded) = 2
    /\ streams[1].yielded[1] # streams[1].yielded[2]
    /\ streams[2].reads = 1
    /\ Len(streams[2].yielded) = 1
    /\ Len(streams[2].served) = 2
    /\ outcome.kind = "return"

-----------------------------------------------------------------------------
\* Claims about close() and the fields of one Connection, under Spec

\* the step is a CRUD call
CrudStep == outcome'.op \in CrudOps

\* C26: after close() returns on a Connection that held a handle, the handle
\* is null and the connected flag is false, also when the transport's own
\* close failed; close() never raises; a second close() changes nothing;
\* every CRUD call after close() and before a new connect() raises the state
\* error.
C26_CloseClearsAndNeverRaises ==
    /\ [](outcome.op = "close"
            => /\ outcome.kind = "return"
               /\ client = 0
               /\ connected = FALSE)
    /\ [][outcome'.op = "close"
            => /\ client # 0 => "close" \in {trace'[i] : i \in DOMAIN trace'}
               /\ client = 0
                    => /\ trace' = <<>>
                       /\ UNCHANGED <<client, connected, live, opened>>]_vars
    /\ [][(CrudStep /\ client = 0 /\ ~connected)
            => /\ outcome'.kind = "raise"
               /\ outcome'.error = NotConnectedError
               /\ trace' = <<>>
               /\ UNCHANGED <<client, connected, live, opened>>]_vars
    /\ [][(outcome.op = "close" /\ ~UNCHANGED vars)
            => \/ outcome'.op = "close"
               \/ CrudStep /\ outcome'.error = NotConnectedError
               \/ client' # 0 /\ opened' = opened + 1
               \/ outcome'.op = "connect" /\ outcome'.kind = "raise"]_vars

C26_Witness ==
    /\ outcome.op = "close"
    /\ outcome.kind = "return"
    /\ trace = <<"close", "raised">>
    /\ connect_called
    /\ client = 0
    /\ connected = FALSE

-----------------------------------------------------------------------------
\* C28: in every reachable state of a Connection, after any sequence of
\* connect, close and CRUD calls with any outcomes, the connected flag true
\* implies a non-null transport handle; hence is_connected is true exactly
\* when the flag is true.
C28_FlagImpliesHandle ==
    /\ connected => client # 0
    /\ is_connected <=> connected

C28_Witness ==
    /\ connected
    /\ client = 2
    /\ is_connected
    /\ outcome.op \in CrudOps
    /\ outcome.kind = "raise"

-----------------------------------------------------------------------------
\* C29: whenever a connect() call raises, the Connection reports
\* is_connected false when the call ends, whatever state it was in before
\* the call (never connected, closed, or already connected).
C29_FailedConnectReportsDisconnected ==
    (outcome.op = "connect" /\ outcome.kind = "raise") => ~is_connected

-----------------------------------------------------------------------------
\* C30: for a single Connection, after any sequence of connect(), close()
\* and CRUD calls, at most one transport handle it opened is not closed; in
\* particular a close() whose transport close returned leaves no handle
\* open.
C30_AtMostOneOpenHandle ==
    /\ Cardinality(live) <= 1
    /\ (outcome.op = "close" /\ cause = NoError) => live = {}

-----------------------------------------------------------------------------
\* C27: get_flight_client_config() returns only a configuration that passes
\* validate_config with no errors: over any sequence of calls, with or
\* without reload, a call for which the loaded configuration is invalid
\* raises ValueError, and so does every later call without reload while the
\* configuration is still invalid.
C27_ReturnsOnlyValidConfig ==
    /\ (config_call.fn # "none" /\ outcome.kind = "return")
       => ValidateConfig(outcome.value) = <<>>
    /\ (config_call.fn # "none" /\ ValidateConfig(api_key) # <<>>)
       => /\ outcome.kind = "raise"
          /\ outcome.error = ValueError

-----------------------------------------------------------------------------
\* C31: a failing insert, select, update or delete on a connected Connection
\* leaves the handle and the connected flag unchanged, the Connection still
\* reports connected, and so the next facade CRUD call reuses the same
\* Connection without constructing or connecting.
C31_FailedOperationKeepsConnection ==
    /\ [][(fcall[1].pc = "delegate" /\ fcall'[1].result = "op_failed")
            => /\ IsConnected(fcall[1].client)
               /\ UNCHANGED <<conns, global_client, live, opened>>]_vars
    /\ [](LET r == fcall[1]
          IN  (r.pc = "idle" /\ r.result = "op_failed")
              => /\ r.delegated = global_client
                 /\ IsConnected(global_client))
    /\ [][(fcall[1].pc = "idle" /\ fcall[1].result = "op_failed"
                /\ fcall'[1].fn \in FacadeCrud /\ fcall'[1].pc # "idle")
            => /\ fcall'[1].reuse
               /\ fcall'[1].pc = "return"
               /\ fcall'[1].held = fcall[1].delegated
               /\ UNCHANGED <<conns, global_client, live, opened>>]_vars

C31_Witness ==
    /\ fcall[1].pc = "idle"
    /\ fcall[1].fn = "a2db_ins"
    /\ fcall[1].reuse
    /\ fcall[1].result = "op_failed"
    /\ fcall[1].delegated = global_client
    /\ IsConnected(global_client)

-----------------------------------------------------------------------------
\* C32: for every update/delete response that decodes with at least one
\* row, the returned success and rows_affected are the row-0 values of the
\* response fields of the same name, whatever later rows contain; a response
\* whose row 0 carries success = false (with its integer rows_affected) is
\* returned as a result with success = false and raises no error.
C32_ResultIsRowZero ==
    /\ (Decoded /\ outcome.kind = "return")
       => /\ IpcValid(decoded)
          /\ NumRows(IpcDecode(decoded)) >= 1
          /\ outcome.value.success = Rows(IpcDecode(decoded))[1].success
          /\ outcome.value.rows_affected
               = Rows(IpcDecode(decoded))[1].rows_affected
    /\ (CarriesResult
        /\ Rows(IpcDecode(decoded))[1].success = BoolCell(FALSE))
       => /\ outcome.kind = "return"
          /\ outcome.error = NoError
          /\ outcome.value.success = BoolCell(FALSE)

C32_Witness ==
    /\ CarriesResult
    /\ call = "delete"
    /\ NumRows(IpcDecode(decoded)) = 2
    /\ Rows(IpcDecode(decoded))[1].success = BoolCell(FALSE)
    /\ Rows(IpcDecode(decoded))[2].success = BoolCell(TRUE)
    /\ Rows(IpcDecode(decoded))[2].rows_affected
         # Rows(IpcDecode(decoded))[1].rows_affected
    /\ outcome.kind = "return"
    /\ outcome.value.success = BoolCell(FALSE)

-----------------------------------------------------------------------------
\* the row count of a result is an integer that is not negative
IsCount(cell) == ~cell.null /\ cell.v \in Nat

\* C33: in every result returned by insert, update or delete, the row count
\* (rows_written / rows_affected) is a non-negative integer, for every
\* response the server can send.
C33_RowCountNonNegative ==
    /\ (call = "insert" /\ pc = "idle" /\ outcome.kind = "return")
       => outcome.value.rows_written \in Nat
    /\ (call \in ActionOps /\ pc = "idle" /\ outcome.kind = "return")
       => IsCount(outcome.value.rows_affected)

-----------------------------------------------------------------------------
\* C34: on every exit path of both context-manager forms (the body
\* completes, the body raises, connect() fails on entry) the client ends
\* closed, with no transport handle left open unless the transport's own
\* close failed, and an exception raised by the body or by connect() goes on
\* to the caller.
C34_EveryExitCloses ==
    ctx.pc = "done"
    => /\ client = 0
       /\ connected = FALSE
       /\ live = {} \/ (outcome.op = "close" /\ cause # NoError)

-----------------------------------------------------------------------------
\* C35: select_streaming checks the connected state when consumption of the
\* sequence starts, not when it is called: the call always hands back a
\* sequence, and the first step of a sequence on a Connection that is then
\* disconnected (never connected, or closed since the call) raises the state
\* error, yields no chunk and makes no transport call.
C35_ConnectedCheckedAtFirstStep ==
    /\ [](\A g \in DOMAIN streams :
            streams[g].state = "created"
            => streams[g].reads = 0 /\ streams[g].yielded = <<>>)
    /\ [][Len(streams') > Len(streams)
            => /\ streams' = Append(streams, NewStream)
               /\ outcome' = outcome]_vars
    /\ [][\A g \in DOMAIN streams :
            (streams[g].state = "created" /\ streams'[g] # streams[g]
                /\ ~(connected /\ client # 0))
            => /\ outcome' = Raised("select_streaming", NotConnectedError)
               /\ streams'[g].state = "done"
               /\ streams'[g].reads = 0
               /\ streams'[g].yielded = <<>>]_vars

C35_Witness ==
    /\ Len(streams) >= 1
    /\ streams[1].connected_at_call
    /\ streams[1].state = "done"
    /\ streams[1].reads = 0
    /\ streams[1].yielded = <<>>
    /\ client = 0
    /\ outcome = Raised("select_streaming", NotConnectedError)

-----------------------------------------------------------------------------
\* Claims about the error type of the Connection's calls, under Spec

ConnectionOps == {"connect"} \cup CrudOps

\* C36: every failure of connect(), insert(), select(), update() and delete()
\* is raised as A2FlightClientError, whatever the transport raised; a connect()
\* call that ended has returned True exactly when it has set the connected
\* flag (the last step of its trace), and has raised otherwise: it never
\* returns another value.
C36_FailuresAreClientErrors ==
    /\ (outcome.op \in ConnectionOps /\ outcome.kind = "raise")
       => /\ outcome.error.type = "A2FlightClientError"
          /\ outcome.value = "none"
    /\ outcome.op = "connect"
       => /\ pc = "idle"
          /\ outcome.kind \in {"return", "raise"}
          /\ outcome.kind = "return"
             <=> \E i \in DOMAIN trace : trace[i] = "connected=True"
          /\ outcome.kind = "return"
             => /\ outcome.value = "True"
                /\ connected
                /\ trace[Len(trace)] = "connected=True"
          /\ outcome.kind = "raise" => trace[Len(trace)] = "raised"

C36_Witness ==
    /\ outcome.op = "select"
    /\ outcome.kind = "raise"
    /\ cause.type = "FlightError"
    /\ outcome.error.type = "A2FlightClientError"
    /\ connected
    /\ "connected=True" \notin {trace[i] : i \in DOMAIN trace}

=============================================================================
